---------------------------- MODULE Spec2Model ----------------------------
(***************************************************************************)
(* Model of the heapprofd client library entry points                      *)
(* (src/src/profiling/memory/client_ext.cc): the heap registry, the       *)
(* session slot guarded by the spinlock, the two hooks, lazy shutdown,    *)
(* session initialisation and the post-fork-child handler.                *)
(*                                                                         *)
(* Every host thread is a small state machine: pc[t] is the thread's      *)
(* position inside the entry point it is executing and loc[t] holds the   *)
(* entry point's arguments and local variables.  A step is one atomic     *)
(* access to shared state (a spinlock-guarded section is entered and      *)
(* executed in the step that acquires the lock and left in a separate     *)
(* step that releases it; the loops over g_heaps run one iteration per    *)
(* step, because they touch heap entries that other threads read without  *)
(* the lock).                                                              *)
(***************************************************************************)
EXTENDS Integers, Sequences, FiniteSets, TLC

VARIABLES
    g_heaps,          \* written slots of HeapprofdHeapInfoInternal g_heaps[256]
    g_next_heap_id,   \* std::atomic<uint32_t> g_next_heap_id
    g_client,         \* the shared_ptr held in g_client_arr (NoClient = empty)
    g_client_init,    \* bool g_client_init
    g_client_lock,    \* std::atomic<bool> g_client_lock
    first_init,       \* static bool first_init of heapprofd_init_session
    clients,          \* every Client object created so far, by session number
    pc,               \* per thread: position in the running entry point
    loc,              \* per thread: arguments and locals of the running entry point
    wire,             \* history: the calls whose record was written, in wire order
    cbLog,            \* history, per heap: callback invocations and the configs seen
    shutdownDone,     \* history: a ShutdownLazy returned and no session was installed since
    hookCalls,        \* history: number of hook hookCalls that passed the enabled test
    dcheckFailed,     \* history: the PERFETTO_DCHECK before the install saw a non-empty slot
    oobAccess,        \* history: a loop indexed g_heaps outside the array
    heap_graph_object_table,     \* storage: rows of HeapGraphObjectTable, id = row number
    heap_graph_reference_table,  \* storage: rows of HeapGraphReferenceTable
    heap_graph_class_table,      \* storage: rows of HeapGraphClassTable
    sequence_state_,  \* HeapGraphTracker: seq_id -> SequenceState
    roots_,           \* HeapGraphTracker: (upid, ts) -> set of root object rows
    stats,            \* storage: the heap graph counters of IncrementStats
    firstFrame,       \* history, per sequence: (upid, ts) of the first accepted frame
    calls,            \* history: number of tracker calls made so far
    flamegraph,       \* the table BuildFlamegraph returned, while storage is as it saw it
    tn,               \* a type name on its way through normalisation and back
    walk              \* MarkRoot and FindPathFromRoot taken one loop iteration at a time

clientVars == <<g_heaps, g_next_heap_id, g_client, g_client_init, g_client_lock,
                first_init, clients, pc, loc, wire, cbLog, shutdownDone,
                hookCalls, dcheckFailed, oobAccess>>

trackerVars == <<heap_graph_object_table, heap_graph_reference_table,
                 heap_graph_class_table, sequence_state_, roots_, stats,
                 firstFrame, calls>>

vars == <<clientVars, trackerVars, flamegraph, tn, walk>>

-----------------------------------------------------------------------------
(* Bounds of the model *)

NumThreads == 2
MaxRegisterCalls == 1
MaxSeqRegisterCalls == 2
MaxHookCalls == 2
MaxSessions == 2
MaxCfgHeaps == 2
SamplingInterval == 2
MaxTableCalls == 258
MaxSamplerCalls == 3

(* Program constants *)

kMinHeapId == 1
HeapArraySize == 256
HEAPPROFD_HEAP_NAME_SZ == 64
SizeofHeapInfo == 72

-----------------------------------------------------------------------------
(* Value domains *)

Threads == 1..NumThreads
NoClient == 0
HeapNames == {"libc.malloc", "art"}
AllocIds == {170}
Sizes == {1, SamplingInterval + 1}

RECURSIVE SeqsUpTo(_, _)
SeqsUpTo(S, n) ==
    IF n = 0 THEN {<<>>}
    ELSE LET shorter == SeqsUpTo(S, n - 1)
         IN  shorter \cup {Append(s, x) : s \in {q \in shorter : Len(q) = n - 1}, x \in S}

\* client_config().heaps[0 .. num_heaps): the heap names the daemon sent.
Configs == SeqsUpTo(HeapNames, MaxCfgHeaps)

\* HeapprofdHeapInfo values a caller may pass to heapprofd_register_heap.
HeapInfos == {[heap_name |-> "libc.malloc", callback |-> TRUE],
              [heap_name |-> "art", callback |-> FALSE]}
InfoSizes == {SizeofHeapInfo, SizeofHeapInfo + 1}

\* The one struct and the two sizes used when the whole table is filled.
TableInfos == {[heap_name |-> "libc.malloc", callback |-> TRUE]}
TableSizes == {SizeofHeapInfo, SizeofHeapInfo + 1}

\* A zero-initialised g_heaps element (static storage).
ZeroHeap == [heap_name |-> "", callback |-> FALSE, ready |-> FALSE,
             enabled |-> FALSE, service_heap_id |-> 0]

NoInfo == [heap_name |-> "", callback |-> FALSE]

\* Arguments and locals of an entry point.  History: n numbers the hook calls
\* in the order they start, alone holds the sampled sizes that a sampler fed
\* with the sizes of this call's heap only could have returned, path names
\* the return path taken, rec lists the
\* records the call handed to its client, afterSd says that the call started
\* after a ShutdownLazy returned and no session was installed since, overlap
\* that an init_session call was running at some time during the call.
IdleLoc == [op |-> "none", heap_id |-> 0, id |-> 0, size |-> 0, n |-> 0,
            info |-> NoInfo, client |-> NoClient, old_client |-> NoClient,
            sampled |-> 0, ret |-> FALSE, ret_id |-> 0, j |-> 0, cfg |-> <<>>,
            path |-> "none", rec |-> <<>>, afterSd |-> FALSE, overlap |-> FALSE,
            alone |-> {}]


-----------------------------------------------------------------------------
(* Heap table *)

\* GetHeap(id): g_heaps[id]; a slot nobody wrote still holds its zero bytes.
GetHeap(id) == IF id \in DOMAIN g_heaps THEN g_heaps[id] ELSE ZeroHeap

SetHeap(hs, id, h) == [i \in (DOMAIN hs) \cup {id} |-> IF i = id THEN h ELSE hs[i]]

HeapIn(hs, id) == IF id \in DOMAIN hs THEN hs[id] ELSE ZeroHeap

\* An index the loops may use without leaving g_heaps[256].
InArray(i) == i >= 0 /\ i < HeapArraySize

\* memcpy(&heap.info, info, n): the first n bytes of the caller's struct; the
\* name occupies bytes [0, HEAPPROFD_HEAP_NAME_SZ), the callback the rest.
CopyInfo(heap, info, n) ==
    [heap EXCEPT !.heap_name = IF n >= HEAPPROFD_HEAP_NAME_SZ THEN info.heap_name ELSE @,
                 !.callback = IF n >= SizeofHeapInfo THEN info.callback ELSE @]

\* Variant: the check on n off by one.
InfoTooLargeOffByOne(n) == n > SizeofHeapInfo + 1

\* The check on n at the top of heapprofd_register_heap.
InfoTooLarge(n) == n > SizeofHeapInfo

\* The capacity check on the id drawn by fetch_add.
TableFull(next_id) == next_id >= HeapArraySize

\* Variant: a plain store of the value read, losing the increment.
FetchAddLost(v) == v

\* g_next_heap_id.fetch_add(1).  The counter is a uint32_t; the guards keep the
\* number of calls, and so the counter, far below 2^32, where it would wrap.
FetchAdd(v) == v + 1

\* History kept per heap: how often its callback was invoked with true (on)
\* and with false (off), whether one of these ran under the spinlock, and for
\* each session whose matching loop visited the ready heap with a callback
\* whether the session's config named it.
NoCalls == [on |-> 0, off |-> 0, locked |-> FALSE, named |-> <<>>]

CallsOf(log, j) == IF j \in DOMAIN log THEN log[j] ELSE NoCalls

SetCalls(log, j, c) == [i \in (DOMAIN log) \cup {j} |-> IF i = j THEN c ELSE log[i]]

\* heap.info.callback(b) for heap j.
Invoked(log, j, b, locked) ==
    LET c == CallsOf(log, j)
    IN  SetCalls(log, j, [c EXCEPT !.on = IF b THEN @ + 1 ELSE @,
                                   !.off = IF b THEN @ ELSE @ + 1,
                                   !.locked = @ \/ locked])

\* Variant: the callback is told, the flag is left set.
DisabledHeapsFlagKept(hs, j) == hs

\* One iteration of DisableAllHeaps on an index inside the array.
DisabledHeaps(hs, j) ==
    LET heap == HeapIn(hs, j)
    IN  IF heap.ready /\ heap.enabled
        THEN SetHeap(hs, j, [heap EXCEPT !.enabled = FALSE])
        ELSE hs

DisabledLog(log, hs, j, locked) ==
    LET heap == HeapIn(hs, j)
    IN  IF heap.ready /\ heap.enabled /\ heap.callback
        THEN Invoked(log, j, FALSE, locked)
        ELSE log

\* DisableAllHeaps run to completion by the only thread of a forked child:
\* <<heaps, callback log, index left the array>>.  An iteration touches the
\* entry of its own index only, so the loop from j up to g_next_heap_id is
\* written entry by entry.
DisableAllFrom(j, hs, log, oob) ==
    LET visited == {i \in j..(g_next_heap_id - 1) : InArray(i)}
        told == {i \in visited : DisabledLog(log, hs, i, FALSE) # log}
    IN  <<[i \in DOMAIN hs |->
              IF i \in visited THEN DisabledHeaps(hs, i)[i] ELSE hs[i]],
          [i \in (DOMAIN log) \cup told |->
              IF i \in told THEN DisabledLog(log, hs, i, FALSE)[i] ELSE log[i]],
          oob \/ \E i \in j..(g_next_heap_id - 1) : ~InArray(i)>>

-----------------------------------------------------------------------------
(* Client objects: perfetto::profiling::Client as the entry points use it   *)

\* alone is history, per heap: the states in which a sampler of the session's
\* interval that was fed with the sizes reported on that heap only, and
\* returned what the session returned for them, could be.
NewClient(toNext) ==
    [connected |-> TRUE, to_next |-> toNext, refs |-> 1, dtor |-> "none",
     alone |-> [h \in {} |-> {}]]

\* One more shared_ptr copy of session s.
AddRef(cs, s) == IF s = NoClient THEN cs ELSE [cs EXCEPT ![s].refs = @ + 1]

\* Variant: the hook keeps a plain pointer to the session, not a shared_ptr.
BorrowedCopy(cs, s) == cs

\* client = *g_client_ptr: the hook's owning copy of the slot's shared_ptr.
OwningCopy(cs, s) == AddRef(cs, s)

\* One shared_ptr to session s is reset or goes out of scope; the Client is
\* destroyed with the last one (locked: the thread holds the spinlock).
DropRef(cs, s, locked) ==
    IF s = NoClient THEN cs
    ELSE IF cs[s].refs = 1
         THEN [cs EXCEPT ![s] = [connected |-> FALSE, to_next |-> 0, refs |-> 0,
                                  dtor |-> IF locked THEN "locked" ELSE "unlocked",
                                  alone |-> [h \in {} |-> {}]]]
         ELSE [cs EXCEPT ![s].refs = @ - 1]

\* Variant: the slot's reference released as by reset().
AbandonRefReleased(cs, s) ==
    IF s = NoClient THEN cs
    ELSE IF cs[s].refs = 1
         THEN [cs EXCEPT ![s] = [connected |-> FALSE, to_next |-> 0, refs |-> 0,
                                  dtor |-> "unlocked",
                                  alone |-> [h \in {} |-> {}]]]
         ELSE [cs EXCEPT ![s].refs = @ - 1]

\* new (g_client_arr) std::shared_ptr<Client>() over the live shared_ptr: the
\* reference it held is never released, the Client stays as it is.
AbandonRef(cs, s) == cs

\* Client::IsConnected().
IsConnected(s) == clients[s].connected

\* The Poisson sampler: <<number of sampling points crossed, bytes left to
\* the next one>> once the remaining interval r has dropped to r.
RECURSIVE Crossings(_, _)
Crossings(r, c) ==
    IF r > 0 THEN {<<c, r>>}
    ELSE UNION {Crossings(r + d, c + 1) : d \in 1..SamplingInterval}

\* Client::GetSampleSizeLocked(size): the possible <<sampled size, next
\* sampler state>>.
SampleOutcomes(toNext, size) ==
    IF size >= SamplingInterval THEN {<<size, toNext>>}
    ELSE {<<SamplingInterval * o[1], o[2]>> : o \in Crossings(toNext - size, 0)}

\* History: a sampler that serves heap h alone, in any of its states.
AloneStates(c, h) ==
    IF h \in DOMAIN c.alone THEN c.alone[h] ELSE 1..SamplingInterval

\* ... and what it could return for size: <<sampled size, next state>>.
AloneOutcomes(c, h, size) ==
    UNION {SampleOutcomes(x, size) : x \in AloneStates(c, h)}

\* ... and its states once it has returned sampled for size.
AloneAfter(c, h, size, sampled) ==
    [i \in (DOMAIN c.alone) \cup {h} |->
        IF i = h
        THEN {a[2] : a \in {x \in AloneOutcomes(c, h, size) : x[1] = sampled}}
        ELSE c.alone[i]]

-----------------------------------------------------------------------------
(* Thread bookkeeping *)

InitPcs == {"is_lock1", "is_rej_unlock", "is_unlock1", "is_old_reset",
            "is_factory", "is_loop", "is_lock2", "is_unlock2"}

HookPcs == {"ra_lock", "ra_unlock", "ra_record", "rf_lock", "rf_unlock",
            "rf_record", "sl_lock", "sl_loop", "sl_unlock"}

\* Positions at which the thread holds g_client_lock.
LockedPcs == {"ra_unlock", "rf_unlock", "sl_loop", "sl_unlock",
              "is_rej_unlock", "is_unlock1", "is_unlock2"}

\* Variant: a host that lets init_session calls overlap.
InitNeverInProgress == FALSE

\* An init_session call is running; the host starts no second one meanwhile.
InitInProgress == \E u \in Threads : pc[u] \in InitPcs

Goto(t, p) == pc' = [pc EXCEPT ![t] = p]

\* Variant: the flag tested and never set.
AcquireNoStore == g_client_lock = FALSE /\ g_client_lock' = FALSE

\* ScopedSpinlock(&g_client_lock, Mode::Try) succeeded: the flag was clear.
Acquire == g_client_lock = FALSE /\ g_client_lock' = TRUE

\* Variant: a scope left without the flag being cleared.
ReleaseFlagKept == g_client_lock' = g_client_lock

\* ~ScopedSpinlock.
Release == g_client_lock' = FALSE

\* Variant: the slot keeps pointing at the session.
ResetKept(slot) == slot

\* g_client_ptr->reset(): what the slot holds afterwards.
Reset(slot) == NoClient

\* GetClientLocked(): constructs the empty shared_ptr on first use.
GetClientLocked == g_client_init' = TRUE


-----------------------------------------------------------------------------
(* heapprofd_register_heap *)

\* Entry, the check on n and the fetch_add.
RegisterHeapCall(t, maxCalls, infos, sizes) ==
    /\ pc[t] = "idle"
    /\ g_next_heap_id < kMinHeapId + maxCalls
    /\ \E info \in infos, n \in sizes :
          LET args == [IdleLoc EXCEPT !.op = "register", !.info = info, !.size = n]
          IN  IF InfoTooLarge(n)
              THEN /\ loc' = [loc EXCEPT ![t] = [args EXCEPT !.path = "too_large"]]
                   /\ Goto(t, "done")
                   /\ UNCHANGED g_next_heap_id
              ELSE /\ g_next_heap_id' = FetchAdd(g_next_heap_id)
                   /\ IF TableFull(g_next_heap_id)
                      THEN /\ loc' = [loc EXCEPT ![t] = [args EXCEPT !.path = "full"]]
                           /\ Goto(t, "done")
                      ELSE /\ loc' = [loc EXCEPT ![t] = [args EXCEPT !.heap_id = g_next_heap_id]]
                           /\ Goto(t, "rh_copy")
    /\ UNCHANGED <<trackerVars, flamegraph, tn, walk>>
    /\ UNCHANGED <<g_heaps, g_client, g_client_init, g_client_lock, first_init,
                   clients, wire, cbLog, shutdownDone, hookCalls,
                   dcheckFailed, oobAccess>>

\* memcpy(&heap.info, info, n).
RegisterHeapCopy(t) ==
    /\ pc[t] = "rh_copy"
    /\ g_heaps' = SetHeap(g_heaps, loc[t].heap_id,
                          CopyInfo(GetHeap(loc[t].heap_id), loc[t].info, loc[t].size))
    /\ Goto(t, "rh_ready")
    /\ UNCHANGED <<trackerVars, flamegraph, tn, walk>>
    /\ UNCHANGED <<g_next_heap_id, g_client, g_client_init, g_client_lock, first_init,
                   clients, loc, wire, cbLog, shutdownDone, hookCalls,
                   dcheckFailed, oobAccess>>

\* heap.ready = true; return next_id.
RegisterHeapReady(t) ==
    /\ pc[t] = "rh_ready"
    /\ g_heaps' = SetHeap(g_heaps, loc[t].heap_id,
                          [GetHeap(loc[t].heap_id) EXCEPT !.ready = TRUE])
    /\ loc' = [loc EXCEPT ![t].ret_id = loc[t].heap_id, ![t].path = "registered"]
    /\ Goto(t, "done")
    /\ UNCHANGED <<trackerVars, flamegraph, tn, walk>>
    /\ UNCHANGED <<g_next_heap_id, g_client, g_client_init, g_client_lock, first_init,
                   clients, wire, cbLog, shutdownDone, hookCalls,
                   dcheckFailed, oobAccess>>

\* heap.info and heap.ready are plain fields, and the loops of init_session
\* and DisableAllHeaps read them on other threads with nothing that orders
\* the accesses: a data race.  Compiler and processor may make the two
\* stores of register_heap visible to those threads in either order; the two
\* steps below are the order in which the store to ready comes first.
RegisterHeapReadyVisibleFirst(t) ==
    /\ pc[t] = "rh_copy"
    /\ g_heaps' = SetHeap(g_heaps, loc[t].heap_id,
                          [GetHeap(loc[t].heap_id) EXCEPT !.ready = TRUE])
    /\ Goto(t, "rh_copy_last")
    /\ UNCHANGED <<trackerVars, flamegraph, tn, walk>>
    /\ UNCHANGED <<g_next_heap_id, g_client, g_client_init, g_client_lock, first_init,
                   clients, loc, wire, cbLog, shutdownDone, hookCalls,
                   dcheckFailed, oobAccess>>

RegisterHeapCopyVisibleLast(t) ==
    /\ pc[t] = "rh_copy_last"
    /\ g_heaps' = SetHeap(g_heaps, loc[t].heap_id,
                          CopyInfo(GetHeap(loc[t].heap_id), loc[t].info, loc[t].size))
    /\ loc' = [loc EXCEPT ![t].ret_id = loc[t].heap_id, ![t].path = "registered"]
    /\ Goto(t, "done")
    /\ UNCHANGED <<trackerVars, flamegraph, tn, walk>>
    /\ UNCHANGED <<g_next_heap_id, g_client, g_client_init, g_client_lock, first_init,
                   clients, wire, cbLog, shutdownDone, hookCalls,
                   dcheckFailed, oobAccess>>

-----------------------------------------------------------------------------
(* heapprofd_report_allocation *)

\* The unsynchronised fast-path read of heap.enabled.
HeapEnabled(heap_id) == GetHeap(heap_id).enabled

\* The test of the session slot inside the hooks and ShutdownLazy.
SlotEmpty == g_client = NoClient

\* Variant: the two size arguments in the wrong order.
MallocRecordSizesSwapped(t) ==
    [kind |-> "malloc", client |-> loc[t].client,
     heap |-> GetHeap(loc[t].heap_id).service_heap_id, id |-> loc[t].id,
     sampled |-> loc[t].size, raw |-> loc[t].sampled]

\* client->RecordMalloc(heap.service_heap_id, sampled_alloc_sz, size, id):
\* the record and the session it is handed to.
MallocRecord(t) ==
    [kind |-> "malloc", client |-> loc[t].client,
     heap |-> GetHeap(loc[t].heap_id).service_heap_id, id |-> loc[t].id,
     sampled |-> loc[t].sampled, raw |-> loc[t].size]

\* Variant: the caller's heap id passed on instead of the daemon's.
FreeRecordLocalHeapId(t) ==
    [kind |-> "free", client |-> loc[t].client,
     heap |-> loc[t].heap_id, id |-> loc[t].id, sampled |-> 0, raw |-> 0]

\* client->RecordFree(heap.service_heap_id, id).
FreeRecord(t) ==
    [kind |-> "free", client |-> loc[t].client,
     heap |-> GetHeap(loc[t].heap_id).service_heap_id, id |-> loc[t].id,
     sampled |-> 0, raw |-> 0]

\* Client::RecordMalloc / RecordFree: the write succeeds only while the daemon
\* is connected, and may fail (send timeout) even then.
WriteResults(s) == IF clients[s].connected THEN BOOLEAN ELSE {FALSE}

\* Variant: a client that queues the record in front of the earlier ones.
WrittenInFront(w, t, n, ok) == IF ok THEN <<[thread |-> t, n |-> n]>> \o w ELSE w

\* The wire after thread t's call number n handed a record to the client:
\* a record whose write succeeded is on the wire behind the earlier ones.
Written(w, t, n, ok) == IF ok THEN Append(w, [thread |-> t, n |-> n]) ELSE w

HookArgs(op, heap_id, id, size) ==
    [IdleLoc EXCEPT !.op = op, !.heap_id = heap_id, !.id = id, !.size = size,
                    !.afterSd = shutdownDone, !.overlap = InitInProgress]

ReportAllocationCall(t, maxCalls, heap_ids, sizes) ==
    /\ pc[t] = "idle"
    /\ \E heap_id \in heap_ids, id \in AllocIds, size \in sizes :
          LET args == HookArgs("alloc", heap_id, id, size)
          IN  IF ~HeapEnabled(heap_id)
              THEN /\ loc' = [loc EXCEPT ![t] = [args EXCEPT !.path = "disabled"]]
                   /\ Goto(t, "done")
                   /\ UNCHANGED hookCalls
              ELSE /\ hookCalls < maxCalls
                   /\ loc' = [loc EXCEPT ![t] = [args EXCEPT !.n = hookCalls + 1]]
                   /\ Goto(t, "ra_lock")
                   /\ hookCalls' = hookCalls + 1
    /\ UNCHANGED <<trackerVars, flamegraph, tn, walk>>
    /\ UNCHANGED <<g_heaps, g_next_heap_id, g_client, g_client_init, g_client_lock,
                   first_init, clients, wire, cbLog, shutdownDone,
                   dcheckFailed, oobAccess>>

\* The guarded section: slot test, sampling decision, owning copy.
ReportAllocationLocked(t) ==
    /\ pc[t] = "ra_lock"
    /\ Acquire
    /\ GetClientLocked
    /\ IF SlotEmpty
       THEN /\ loc' = [loc EXCEPT ![t].path = "no_client"]
            /\ UNCHANGED clients
       ELSE \E o \in SampleOutcomes(clients[g_client].to_next, loc[t].size) :
               LET alone == {a[1] : a \in AloneOutcomes(clients[g_client],
                                                       loc[t].heap_id, loc[t].size)}
                   sampled == [clients EXCEPT
                                 ![g_client].to_next = o[2],
                                 ![g_client].alone =
                                     AloneAfter(clients[g_client], loc[t].heap_id,
                                                loc[t].size, o[1])]
               IN  IF o[1] = 0
                   THEN /\ loc' = [loc EXCEPT ![t].path = "not_sampled",
                                              ![t].alone = alone]
                        /\ clients' = sampled
                   ELSE /\ loc' = [loc EXCEPT ![t].sampled = o[1], ![t].client = g_client,
                                              ![t].alone = alone]
                        /\ clients' = OwningCopy(sampled, g_client)
    /\ Goto(t, "ra_unlock")
    /\ UNCHANGED <<trackerVars, flamegraph, tn, walk>>
    /\ UNCHANGED <<g_heaps, g_next_heap_id, g_client, first_init, wire, cbLog,
                   shutdownDone, hookCalls, dcheckFailed, oobAccess>>

\* Variant: the guarded scope closed only after the record is written.
ReportAllocationScopeKept(t) ==
    /\ pc[t] = "ra_unlock"
    /\ Goto(t, IF loc[t].client = NoClient THEN "done" ELSE "ra_record")
    /\ UNCHANGED <<trackerVars, flamegraph, tn, walk>>
    /\ UNCHANGED <<g_heaps, g_next_heap_id, g_client, g_client_init, g_client_lock,
                   first_init, clients, loc, wire, cbLog, shutdownDone, hookCalls,
                   dcheckFailed, oobAccess>>

\* End of the guarded scope; the two early returns leave through it too.
ReportAllocationUnlock(t) ==
    /\ pc[t] = "ra_unlock"
    /\ Release
    /\ Goto(t, IF loc[t].client = NoClient THEN "done" ELSE "ra_record")
    /\ UNCHANGED <<trackerVars, flamegraph, tn, walk>>
    /\ UNCHANGED <<g_heaps, g_next_heap_id, g_client, g_client_init, first_init,
                   clients, loc, wire, cbLog, shutdownDone, hookCalls,
                   dcheckFailed, oobAccess>>

\* client->RecordMalloc(...); ShutdownLazy() when it fails; return true.
ReportAllocationRecord(t) ==
    /\ pc[t] = "ra_record"
    /\ \E ok \in WriteResults(loc[t].client) :
          /\ wire' = Written(wire, t, loc[t].n, ok)
          /\ loc' = [loc EXCEPT ![t].ret = TRUE, ![t].rec = <<MallocRecord(t)>>,
                                ![t].path = IF ok THEN "recorded" ELSE "write_failed"]
          /\ Goto(t, IF ok THEN "done" ELSE "sl_lock")
    /\ UNCHANGED <<trackerVars, flamegraph, tn, walk>>
    /\ UNCHANGED <<g_heaps, g_next_heap_id, g_client, g_client_init, g_client_lock,
                   first_init, clients, cbLog, shutdownDone, hookCalls,
                   dcheckFailed, oobAccess>>

-----------------------------------------------------------------------------
(* heapprofd_report_free *)

ReportFreeCall(t, maxCalls, heap_ids) ==
    /\ pc[t] = "idle"
    /\ \E heap_id \in heap_ids, id \in AllocIds :
          LET args == HookArgs("free", heap_id, id, 0)
          IN  IF ~HeapEnabled(heap_id)
              THEN /\ loc' = [loc EXCEPT ![t] = [args EXCEPT !.path = "disabled"]]
                   /\ Goto(t, "done")
                   /\ UNCHANGED hookCalls
              ELSE /\ hookCalls < maxCalls
                   /\ loc' = [loc EXCEPT ![t] = [args EXCEPT !.n = hookCalls + 1]]
                   /\ Goto(t, "rf_lock")
                   /\ hookCalls' = hookCalls + 1
    /\ UNCHANGED <<trackerVars, flamegraph, tn, walk>>
    /\ UNCHANGED <<g_heaps, g_next_heap_id, g_client, g_client_init, g_client_lock,
                   first_init, clients, wire, cbLog, shutdownDone,
                   dcheckFailed, oobAccess>>

\* client = *GetClientLocked(): owning copy, or empty.
ReportFreeLocked(t) ==
    /\ pc[t] = "rf_lock"
    /\ Acquire
    /\ GetClientLocked
    /\ loc' = [loc EXCEPT ![t].client = g_client,
                          ![t].path = IF SlotEmpty THEN "no_client" ELSE @]
    /\ clients' = OwningCopy(clients, g_client)
    /\ Goto(t, "rf_unlock")
    /\ UNCHANGED <<trackerVars, flamegraph, tn, walk>>
    /\ UNCHANGED <<g_heaps, g_next_heap_id, g_client, first_init, wire, cbLog,
                   shutdownDone, hookCalls, dcheckFailed, oobAccess>>

ReportFreeUnlock(t) ==
    /\ pc[t] = "rf_unlock"
    /\ Release
    /\ Goto(t, IF loc[t].client = NoClient THEN "done" ELSE "rf_record")
    /\ UNCHANGED <<trackerVars, flamegraph, tn, walk>>
    /\ UNCHANGED <<g_heaps, g_next_heap_id, g_client, g_client_init, first_init,
                   clients, loc, wire, cbLog, shutdownDone, hookCalls,
                   dcheckFailed, oobAccess>>

\* client->RecordFree(...); ShutdownLazy() when it fails.
ReportFreeRecord(t) ==
    /\ pc[t] = "rf_record"
    /\ \E ok \in WriteResults(loc[t].client) :
          /\ wire' = Written(wire, t, loc[t].n, ok)
          /\ loc' = [loc EXCEPT ![t].rec = <<FreeRecord(t)>>,
                                ![t].path = IF ok THEN "recorded" ELSE "write_failed"]
          /\ Goto(t, IF ok THEN "done" ELSE "sl_lock")
    /\ UNCHANGED <<trackerVars, flamegraph, tn, walk>>
    /\ UNCHANGED <<g_heaps, g_next_heap_id, g_client, g_client_init, g_client_lock,
                   first_init, clients, cbLog, shutdownDone, hookCalls,
                   dcheckFailed, oobAccess>>


-----------------------------------------------------------------------------
(* ShutdownLazy, called by a hook whose write failed *)

\* Variant: the early return taken on a live slot instead of an empty one.
ShutdownSkipsLiveSlot == ~SlotEmpty

\* if (!*GetClientLocked()) return;  -- another invocation already shut down.
ShutdownAlreadyInitiated == SlotEmpty

\* What a loop does with an index outside g_heaps[256]: the read is undefined;
\* either the bytes found there look like a heap that is not enabled, or the
\* process dies on the stray write or the wild callback.
OobOutcomes == {"skip", "crash"}

Crashed == [u \in Threads |-> "crashed"]

ShutdownLazyLocked(t) ==
    /\ pc[t] = "sl_lock"
    /\ Acquire
    /\ GetClientLocked
    /\ IF ShutdownAlreadyInitiated
       THEN /\ Goto(t, "sl_unlock")
            /\ UNCHANGED loc
       ELSE /\ Goto(t, "sl_loop")
            /\ loc' = [loc EXCEPT ![t].j = kMinHeapId]
    /\ UNCHANGED <<trackerVars, flamegraph, tn, walk>>
    /\ UNCHANGED <<g_heaps, g_next_heap_id, g_client, first_init, clients, wire,
                   cbLog, shutdownDone, hookCalls, dcheckFailed, oobAccess>>

\* One iteration of DisableAllHeaps, under the spinlock.
DisableAllHeapsIter(t) ==
    /\ pc[t] = "sl_loop"
    /\ loc[t].j < g_next_heap_id
    /\ IF InArray(loc[t].j)
       THEN /\ g_heaps' = DisabledHeaps(g_heaps, loc[t].j)
            /\ cbLog' = DisabledLog(cbLog, g_heaps, loc[t].j, TRUE)
            /\ UNCHANGED <<pc, oobAccess>>
       ELSE /\ oobAccess' = TRUE
            /\ \E o \in OobOutcomes : pc' = IF o = "crash" THEN Crashed ELSE pc
            /\ UNCHANGED <<g_heaps, cbLog>>
    /\ loc' = [loc EXCEPT ![t].j = @ + 1]
    /\ UNCHANGED <<trackerVars, flamegraph, tn, walk>>
    /\ UNCHANGED <<g_next_heap_id, g_client, g_client_init, g_client_lock, first_init,
                   clients, wire, shutdownDone, hookCalls, dcheckFailed>>

\* GetClientLocked()->reset(); android_mallopt(M_RESET_HOOKS).
ShutdownLazyReset(t) ==
    /\ pc[t] = "sl_loop"
    /\ loc[t].j >= g_next_heap_id
    /\ clients' = DropRef(clients, g_client, TRUE)
    /\ g_client' = Reset(g_client)
    /\ Goto(t, "sl_unlock")
    /\ UNCHANGED <<trackerVars, flamegraph, tn, walk>>
    /\ UNCHANGED <<g_heaps, g_next_heap_id, g_client_init, g_client_lock, first_init,
                   loc, wire, cbLog, shutdownDone, hookCalls, dcheckFailed,
                   oobAccess>>

\* ShutdownLazy returns, and the hook after it.
ShutdownLazyUnlock(t) ==
    /\ pc[t] = "sl_unlock"
    /\ Release
    /\ shutdownDone' = TRUE
    /\ Goto(t, "done")
    /\ UNCHANGED <<trackerVars, flamegraph, tn, walk>>
    /\ UNCHANGED <<g_heaps, g_next_heap_id, g_client, g_client_init, first_init,
                   clients, loc, wire, cbLog, hookCalls, dcheckFailed, oobAccess>>

-----------------------------------------------------------------------------
(* heapprofd_init_session *)

\* Variant: the connection test dropped, any session in the slot is replaced.
NeverConnected == FALSE

\* *g_client_ptr && (*g_client_ptr)->IsConnected()
AlreadyConnected == g_client # NoClient /\ IsConnected(g_client)

\* What a factory returns: nothing, or a client whose handshake brought the
\* list of heap names.
FactoryResults(configs) ==
    {[ok |-> FALSE, heaps |-> <<>>]} \cup
    (IF Len(clients) < MaxSessions THEN {[ok |-> TRUE, heaps |-> c] : c \in configs} ELSE {})

\* Variant: the inner loop without its break, the last match wins.
MatchIndexNoBreak(cfg, name) ==
    LET hits == {i \in 1..Len(cfg) : cfg[i] = name}
    IN  IF hits = {} THEN -1 ELSE (CHOOSE i \in hits : \A k \in hits : i >= k) - 1

\* Index (from 0) of the first entry of cli_config.heaps equal to name, or -1:
\* the inner loop with its break.
MatchIndex(cfg, name) ==
    LET hits == {i \in 1..Len(cfg) : cfg[i] = name}
    IN  IF hits = {} THEN -1 ELSE (CHOOSE i \in hits : \A k \in hits : i <= k) - 1

\* One iteration of the loop over the ready heaps: the heap table after it.
MatchedHeaps(hs, j, cfg) ==
    LET heap == HeapIn(hs, j)
        i == MatchIndex(cfg, heap.heap_name)
    IN  IF ~heap.ready THEN hs
        ELSE IF i >= 0
             THEN SetHeap(hs, j, [heap EXCEPT !.service_heap_id = i, !.enabled = TRUE])
             ELSE IF heap.enabled
                  THEN SetHeap(hs, j, [heap EXCEPT !.enabled = FALSE])
                  ELSE hs

\* Variant: callback(false) for every heap the config omits, enabled or not.
MatchedLogNoEnabledTest(log, hs, j, cfg) ==
    LET heap == HeapIn(hs, j)
        i == MatchIndex(cfg, heap.heap_name)
        seen == SetCalls(log, j, [CallsOf(log, j) EXCEPT !.named = Append(@, i >= 0)])
    IN  IF ~heap.ready THEN log
        ELSE IF ~heap.callback THEN log
        ELSE IF i >= 0
             THEN IF ~heap.enabled THEN Invoked(seen, j, TRUE, FALSE) ELSE seen
             ELSE Invoked(seen, j, FALSE, FALSE)

\* ... and the callback invocations it makes.
MatchedLog(log, hs, j, cfg) ==
    LET heap == HeapIn(hs, j)
        i == MatchIndex(cfg, heap.heap_name)
        seen == SetCalls(log, j, [CallsOf(log, j) EXCEPT !.named = Append(@, i >= 0)])
    IN  IF ~heap.ready THEN log
        ELSE IF ~heap.callback THEN log
        ELSE IF i >= 0
             THEN IF ~heap.enabled THEN Invoked(seen, j, TRUE, FALSE) ELSE seen
             ELSE IF heap.enabled THEN Invoked(seen, j, FALSE, FALSE) ELSE seen

\* Entry; the first call installs the atfork handler.  Bionic never runs two
\* init_session calls at once.
InitSessionCall(t) ==
    /\ pc[t] = "idle"
    /\ ~InitInProgress
    /\ \E atfork_ok \in (IF first_init THEN BOOLEAN ELSE {TRUE}) :
          LET args == [IdleLoc EXCEPT !.op = "init"]
              seen(u) == IF loc[u].op \in {"alloc", "free"}
                         THEN [loc[u] EXCEPT !.overlap = TRUE] ELSE loc[u]
          IN  IF ~atfork_ok
              THEN /\ loc' = [loc EXCEPT ![t] = [args EXCEPT !.path = "atfork_failed"]]
                   /\ Goto(t, "done")
                   /\ UNCHANGED first_init
              ELSE /\ loc' = [u \in Threads |-> IF u = t THEN args ELSE seen(u)]
                   /\ Goto(t, "is_lock1")
                   /\ first_init' = FALSE
    /\ UNCHANGED <<trackerVars, flamegraph, tn, walk>>
    /\ UNCHANGED <<g_heaps, g_next_heap_id, g_client, g_client_init, g_client_lock,
                   clients, wire, cbLog, shutdownDone, hookCalls, dcheckFailed,
                   oobAccess>>

\* First guarded section: reject when connected, else swap the session out.
InitSessionLocked1(t) ==
    /\ pc[t] = "is_lock1"
    /\ Acquire
    /\ GetClientLocked
    /\ IF AlreadyConnected
       THEN /\ loc' = [loc EXCEPT ![t].ret = TRUE, ![t].path = "rejected"]
            /\ Goto(t, "is_rej_unlock")
            /\ UNCHANGED g_client
       ELSE /\ loc' = [loc EXCEPT ![t].old_client = g_client]
            /\ g_client' = Reset(g_client)
            /\ Goto(t, "is_unlock1")
    /\ UNCHANGED <<trackerVars, flamegraph, tn, walk>>
    /\ UNCHANGED <<g_heaps, g_next_heap_id, first_init, clients, wire, cbLog,
                   shutdownDone, hookCalls, dcheckFailed, oobAccess>>

\* return true out of the guarded scope.
InitSessionRejectUnlock(t) ==
    /\ pc[t] = "is_rej_unlock"
    /\ Release
    /\ Goto(t, "done")
    /\ UNCHANGED <<trackerVars, flamegraph, tn, walk>>
    /\ UNCHANGED <<g_heaps, g_next_heap_id, g_client, g_client_init, first_init,
                   clients, loc, wire, cbLog, shutdownDone, hookCalls,
                   dcheckFailed, oobAccess>>

InitSessionUnlock1(t) ==
    /\ pc[t] = "is_unlock1"
    /\ Release
    /\ Goto(t, "is_old_reset")
    /\ UNCHANGED <<trackerVars, flamegraph, tn, walk>>
    /\ UNCHANGED <<g_heaps, g_next_heap_id, g_client, g_client_init, first_init,
                   clients, loc, wire, cbLog, shutdownDone, hookCalls,
                   dcheckFailed, oobAccess>>

\* old_client.reset()
InitSessionOldReset(t) ==
    /\ pc[t] = "is_old_reset"
    /\ clients' = DropRef(clients, loc[t].old_client, FALSE)
    /\ loc' = [loc EXCEPT ![t].old_client = NoClient]
    /\ Goto(t, "is_factory")
    /\ UNCHANGED <<trackerVars, flamegraph, tn, walk>>
    /\ UNCHANGED <<g_heaps, g_next_heap_id, g_client, g_client_init, g_client_lock,
                   first_init, wire, cbLog, shutdownDone, hookCalls,
                   dcheckFailed, oobAccess>>

\* The factories, without the lock: central daemon unless the property forces
\* fork mode, then the private daemon if there is still no client.
InitSessionFactory(t, configs) ==
    /\ pc[t] = "is_factory"
    /\ \E force_fork \in BOOLEAN, central \in FactoryResults(configs),
          private \in FactoryResults(configs) :
          LET client == IF ~force_fork /\ central.ok THEN central ELSE private
          IN  IF ~client.ok
              THEN /\ loc' = [loc EXCEPT ![t].path = "factory_failed"]
                   /\ Goto(t, "done")
                   /\ UNCHANGED clients
              ELSE \E toNext \in 1..SamplingInterval :
                      /\ clients' = Append(clients, NewClient(toNext))
                      /\ loc' = [loc EXCEPT ![t].client = Len(clients) + 1,
                                            ![t].cfg = client.heaps,
                                            ![t].j = kMinHeapId]
                      /\ Goto(t, "is_loop")
    /\ UNCHANGED <<trackerVars, flamegraph, tn, walk>>
    /\ UNCHANGED <<g_heaps, g_next_heap_id, g_client, g_client_init, g_client_lock,
                   first_init, wire, cbLog, shutdownDone, hookCalls,
                   dcheckFailed, oobAccess>>

\* One iteration of the loop over g_heaps, without the lock.
InitSessionLoopIter(t) ==
    /\ pc[t] = "is_loop"
    /\ loc[t].j < g_next_heap_id
    /\ IF InArray(loc[t].j)
       THEN /\ g_heaps' = MatchedHeaps(g_heaps, loc[t].j, loc[t].cfg)
            /\ cbLog' = MatchedLog(cbLog, g_heaps, loc[t].j, loc[t].cfg)
            /\ UNCHANGED <<pc, oobAccess>>
       ELSE /\ oobAccess' = TRUE
            /\ \E o \in OobOutcomes : pc' = IF o = "crash" THEN Crashed ELSE pc
            /\ UNCHANGED <<g_heaps, cbLog>>
    /\ loc' = [loc EXCEPT ![t].j = @ + 1]
    /\ UNCHANGED <<trackerVars, flamegraph, tn, walk>>
    /\ UNCHANGED <<g_next_heap_id, g_client, g_client_init, g_client_lock, first_init,
                   clients, wire, shutdownDone, hookCalls, dcheckFailed>>

InitSessionLoopExit(t) ==
    /\ pc[t] = "is_loop"
    /\ loc[t].j >= g_next_heap_id
    /\ Goto(t, "is_lock2")
    /\ UNCHANGED <<trackerVars, flamegraph, tn, walk>>
    /\ UNCHANGED <<g_heaps, g_next_heap_id, g_client, g_client_init, g_client_lock,
                   first_init, clients, loc, wire, cbLog, shutdownDone,
                   hookCalls, dcheckFailed, oobAccess>>

\* Second guarded section: PERFETTO_DCHECK(slot empty); slot = std::move(client).
InitSessionInstall(t) ==
    /\ pc[t] = "is_lock2"
    /\ Acquire
    /\ GetClientLocked
    /\ dcheckFailed' = (dcheckFailed \/ ~SlotEmpty)
    /\ clients' = DropRef(clients, g_client, TRUE)
    /\ g_client' = loc[t].client
    /\ loc' = [u \in Threads |->
                 IF u = t
                 THEN [loc[t] EXCEPT !.client = NoClient, !.ret = TRUE, !.path = "created"]
                 ELSE [loc[u] EXCEPT !.afterSd = FALSE]]
    /\ shutdownDone' = FALSE
    /\ Goto(t, "is_unlock2")
    /\ UNCHANGED <<trackerVars, flamegraph, tn, walk>>
    /\ UNCHANGED <<g_heaps, g_next_heap_id, first_init, wire, cbLog, hookCalls, oobAccess>>

InitSessionUnlock2(t) ==
    /\ pc[t] = "is_unlock2"
    /\ Release
    /\ Goto(t, "done")
    /\ UNCHANGED <<trackerVars, flamegraph, tn, walk>>
    /\ UNCHANGED <<g_heaps, g_next_heap_id, g_client, g_client_init, first_init,
                   clients, loc, wire, cbLog, shutdownDone, hookCalls,
                   dcheckFailed, oobAccess>>

-----------------------------------------------------------------------------
(* Return, the daemon, fork *)

\* The entry point returns to the host; its shared_ptr locals go out of scope.
Return(t) ==
    /\ pc[t] = "done"
    /\ clients' = DropRef(clients, loc[t].client, FALSE)
    /\ loc' = [loc EXCEPT ![t] = IdleLoc]
    /\ Goto(t, "idle")
    /\ UNCHANGED <<trackerVars, flamegraph, tn, walk>>
    /\ UNCHANGED <<g_heaps, g_next_heap_id, g_client, g_client_init, g_client_lock,
                   first_init, wire, cbLog, shutdownDone, hookCalls,
                   dcheckFailed, oobAccess>>

\* The daemon goes away: the session's socket is disconnected from now on.
DaemonDies ==
    /\ \E s \in DOMAIN clients :
          /\ clients[s].connected
          /\ clients' = [clients EXCEPT ![s].connected = FALSE]
    /\ UNCHANGED <<trackerVars, flamegraph, tn, walk>>
    /\ UNCHANGED <<g_heaps, g_next_heap_id, g_client, g_client_init, g_client_lock,
                   first_init, pc, loc, wire, cbLog, shutdownDone, hookCalls,
                   dcheckFailed, oobAccess>>

\* Thread t calls fork() and the model follows the child: the other threads do
\* not exist there, and AtForkChild runs before fork() returns.
\* AtForkChild: g_client_lock.store(false); DisableAllHeaps(); placement-new of
\* an empty shared_ptr over g_client_arr (the old reference is not released).
ForkChild(t) ==
    /\ pc[t] = "idle"
    /\ ~first_init
    /\ LET d == DisableAllFrom(kMinHeapId, g_heaps, cbLog, oobAccess)
       IN  /\ g_heaps' = d[1]
           /\ cbLog' = d[2]
           /\ oobAccess' = d[3]
    /\ g_client_lock' = FALSE
    /\ g_client' = NoClient
    /\ clients' = AbandonRef(clients, g_client)
    /\ pc' = [u \in Threads |-> IF u = t THEN "idle" ELSE "gone"]
    /\ loc' = [u \in Threads |-> IdleLoc]
    /\ UNCHANGED <<trackerVars, flamegraph, tn, walk>>
    /\ UNCHANGED <<g_next_heap_id, g_client_init, first_init, wire,
                   shutdownDone, hookCalls, dcheckFailed>>

-----------------------------------------------------------------------------
(* Heap graph tracker                                                       *)
(* (src/src/trace_processor/importers/proto/heap_graph_tracker.cc)         *)
(*                                                                         *)
(* A string is a sequence of one-character strings, so that the type-name   *)
(* functions work on characters as the code does.  A table is the         *)
(* sequence of its rows; ids and row numbers count from 0 as in the code,   *)
(* so the row with id i is the element i + 1 of the sequence.  A nullable   *)
(* column holds Null when it has no value.                                  *)

Null == -1

\* Bounds of the tracker model
MaxNameLen == 4
MaxObjectId == 3
MaxObjectFrames == 3
MaxRootFrames == 1
MaxInternFrames == 3
MaxFinalizeCalls == 2
MaxPacketFrames == 2

\* kJavaClassTemplate[] = "java.lang.Class<"
kJavaClassTemplate ==
    <<"j", "a", "v", "a", ".", "l", "a", "n", "g", ".",
      "C", "l", "a", "s", "s", "<">>

Min(a, b) == IF a < b THEN a ELSE b

\* base::StringView::substr(pos, count), pos counted from 0
Substr(s, pos, count) ==
    IF pos >= Len(s) THEN <<>>
    ELSE SubSeq(s, pos + 1, pos + Min(count, Len(s) - pos))

NoValue == [has_value |-> FALSE, value |-> <<>>]
Some(v) == [has_value |-> TRUE, value |-> v]

GetStaticClassTypeName(type) ==
    IF /\ Len(type) > 0
       /\ type[Len(type)] = ">"
       /\ Substr(type, 0, Len(kJavaClassTemplate)) = kJavaClassTemplate
    THEN Some(Substr(type, Len(kJavaClassTemplate),
                     Len(type) - Len(kJavaClassTemplate) - 1))
    ELSE NoValue

\* The while loop of NumberOfArrays: arrays pairs "[]" have been counted.
RECURSIVE CountArrays(_, _)
CountArrays(type, arrays) ==
    IF /\ Len(type) >= 2 * (arrays + 1)
       /\ SubSeq(type, Len(type) - 2 * (arrays + 1) + 1,
                 Len(type) - 2 * arrays) = <<"[", "]">>
    THEN CountArrays(type, arrays + 1)
    ELSE arrays

NumberOfArrays(type) ==
    IF Len(type) < 2 THEN 0 ELSE CountArrays(type, 0)

GetNormalizedType(type) ==
    LET static_class_type_name == GetStaticClassTypeName(type)
        is_static_class == static_class_type_name.has_value
        inner == IF is_static_class THEN static_class_type_name.value ELSE type
        number_of_arrays == NumberOfArrays(inner)
    IN  [name |-> Substr(inner, 0, Len(inner) - number_of_arrays * 2),
         is_static_class |-> is_static_class,
         number_of_arrays |-> number_of_arrays]

NormalizeTypeName(type) == GetNormalizedType(type).name

RECURSIVE AppendArrays(_, _)
AppendArrays(result, n) ==
    IF n = 0 THEN result ELSE AppendArrays(result \o <<"[", "]">>, n - 1)

DenormalizeTypeNameClassFirst(normalized, deobfuscated_type_name) ==
    LET wrapped == IF normalized.is_static_class
                   THEN kJavaClassTemplate \o deobfuscated_type_name \o <<">">>
                   ELSE deobfuscated_type_name
    IN  AppendArrays(wrapped, normalized.number_of_arrays)

DenormalizeTypeName(normalized, deobfuscated_type_name) ==
    LET result == AppendArrays(deobfuscated_type_name, normalized.number_of_arrays)
    IN  IF normalized.is_static_class
        THEN kJavaClassTemplate \o result \o <<">">>
        ELSE result

\* Type names on their way through GetNormalizedType and DenormalizeTypeName
TypeChars == {"X", "[", "]", "<", ">"}
ShortNames == UNION {[1..n -> TypeChars] : n \in 0..MaxNameLen}
TypeNames == ShortNames \cup {kJavaClassTemplate \o s : s \in ShortNames}

NoTypeName ==
    [pc |-> "none", type |-> <<>>, normalized |-> GetNormalizedType(<<>>),
     result |-> <<>>]

NormalizeStep ==
    /\ tn.pc = "input"
    /\ tn' = [tn EXCEPT !.pc = "normalized",
                        !.normalized = GetNormalizedType(tn.type)]
    /\ UNCHANGED <<clientVars, trackerVars, flamegraph, walk>>

DenormalizeStep ==
    /\ tn.pc = "normalized"
    /\ tn' = [tn EXCEPT !.pc = "denormalized",
                        !.result = DenormalizeTypeName(tn.normalized,
                                                       tn.normalized.name)]
    /\ UNCHANGED <<clientVars, trackerVars, flamegraph, walk>>

-----------------------------------------------------------------------------
(* Tables and per-sequence state *)

EmptyMap == [k \in {} |-> Null]

MapPut(m, k, v) == [x \in DOMAIN m \cup {k} |-> IF x = k THEN v ELSE m[x]]

Row(table, id) == table[id + 1]

SetCell(table, id, column, v) ==
    [table EXCEPT ![id + 1] = [@ EXCEPT ![column] = v]]

\* SequenceState as default-constructed by sequence_state_[seq_id]
EmptySequenceState ==
    [current_upid |-> 0,
     current_ts |-> 0,
     object_id_to_db_id |-> EmptyMap,
     type_id_to_db_id |-> EmptyMap,
     references_for_field_name_id |-> EmptyMap,
     interned_types |-> EmptyMap,
     interned_location_names |-> EmptyMap,
     current_roots |-> <<>>,
     prev_index |-> Null]

\* Variant: one SequenceState serves every sequence id.
SharedSequence(seq_id) ==
    IF DOMAIN sequence_state_ = {} THEN EmptySequenceState
    ELSE sequence_state_[CHOOSE k \in DOMAIN sequence_state_ :
                             \A l \in DOMAIN sequence_state_ : k <= l]

GetOrCreateSequence(seq_id) ==
    IF seq_id \in DOMAIN sequence_state_
    THEN sequence_state_[seq_id]
    ELSE EmptySequenceState

NoStats ==
    [heap_graph_non_finalized_graph |-> 0,
     heap_graph_invalid_string_id |-> 0,
     heap_graph_missing_packet |-> 0]

IncrementStats(s, key) == [s EXCEPT ![key] = @ + 1]

\* The caller adds one to heap_graph_non_finalized_graph when ok is FALSE.
SetPidAndTimestamp(sequence_state, upid, ts) ==
    IF sequence_state.current_upid # 0 /\ sequence_state.current_upid # upid THEN
        [ok |-> FALSE, seq |-> sequence_state]
    ELSE IF sequence_state.current_ts # 0 /\ sequence_state.current_ts # ts THEN
        [ok |-> FALSE, seq |-> sequence_state]
    ELSE
        [ok |-> TRUE,
         seq |-> [sequence_state EXCEPT !.current_upid = upid,
                                        !.current_ts = ts]]

\* T: the tables and the sequence state a handler works on,
\* [objects, references, classes, seq].
NewObjectRow(upid, ts) ==
    [upid |-> upid,
     graph_sample_ts |-> ts,
     self_size |-> -1,
     reference_set_id |-> Null,
     reachable |-> 0,
     type_id |-> 0,
     root_type |-> Null,
     root_distance |-> -1]

GetOrInsertObject(T, object_id) ==
    IF object_id \in DOMAIN T.seq.object_id_to_db_id THEN
        [T |-> T, id |-> T.seq.object_id_to_db_id[object_id]]
    ELSE
        LET id == Len(T.objects)
        IN  [T |-> [T EXCEPT
                      !.objects = Append(@, NewObjectRow(T.seq.current_upid,
                                                         T.seq.current_ts)),
                      !.seq.object_id_to_db_id = MapPut(@, object_id, id)],
             id |-> id]

NewClassRow == [name |-> <<>>, location |-> Null, superclass_id |-> Null]

GetOrInsertType(T, type_id) ==
    IF type_id \in DOMAIN T.seq.type_id_to_db_id THEN
        [T |-> T, id |-> T.seq.type_id_to_db_id[type_id]]
    ELSE
        LET id == Len(T.classes)
        IN  [T |-> [T EXCEPT
                      !.classes = Append(@, NewClassRow),
                      !.seq.type_id_to_db_id = MapPut(@, type_id, id)],
             id |-> id]

\* Variant: the owner column of a reference row is filled with the owned
\* object.
RECURSIVE AddReferencesOwnedAsOwner(_, _, _, _, _)
AddReferencesOwnedAsOwner(T, references, i, owner_id, reference_set_id) ==
    IF i > Len(references) THEN T
    ELSE IF references[i].owned_object_id = 0 THEN
        AddReferencesOwnedAsOwner(T, references, i + 1, owner_id, reference_set_id)
    ELSE
        LET owned == GetOrInsertObject(T, references[i].owned_object_id)
            row == [reference_set_id |-> reference_set_id,
                    owner_id |-> owned.id,
                    owned_id |-> owned.id,
                    field_name |-> <<>>,
                    field_type_name |-> <<>>]
        IN  AddReferencesOwnedAsOwner(
                [owned.T EXCEPT !.references = Append(@, row)],
                references, i + 1, owner_id, reference_set_id)

\* The loop of AddObject over obj.references, from reference i on.
RECURSIVE AddReferences(_, _, _, _, _)
AddReferences(T, references, i, owner_id, reference_set_id) ==
    IF i > Len(references) THEN T
    ELSE IF references[i].owned_object_id = 0 THEN
        AddReferences(T, references, i + 1, owner_id, reference_set_id)
    ELSE
        LET owned == GetOrInsertObject(T, references[i].owned_object_id)
            ref_id == Len(owned.T.references)
            fid == references[i].field_name_id
            known == owned.T.seq.references_for_field_name_id
            row == [reference_set_id |-> reference_set_id,
                    owner_id |-> owner_id,
                    owned_id |-> owned.id,
                    field_name |-> <<>>,
                    field_type_name |-> <<>>]
        IN  AddReferences(
                [owned.T EXCEPT
                   !.references = Append(@, row),
                   !.seq.references_for_field_name_id =
                       MapPut(@, fid,
                              IF fid \in DOMAIN known
                              THEN Append(known[fid], ref_id)
                              ELSE <<ref_id>>)],
                references, i + 1, owner_id, reference_set_id)

Tables(seq) ==
    [objects |-> heap_graph_object_table,
     references |-> heap_graph_reference_table,
     classes |-> heap_graph_class_table,
     seq |-> seq]

\* History: the (upid, ts) of the first frame a sequence accepted since its
\* last FinalizeProfile.
FirstAccepted(seq_id, upid, ts) ==
    IF seq_id \in DOMAIN firstFrame
    THEN firstFrame
    ELSE MapPut(firstFrame, seq_id, <<upid, ts>>)

-----------------------------------------------------------------------------
(* Reachability *)

\* The loop of GetChildren, at reference_row with the children found so far.
RECURSIVE ChildrenFrom(_, _, _, _)
ChildrenFrom(references, reference_set_id, reference_row, children) ==
    IF reference_row >= Len(references) THEN children
    ELSE IF Row(references, reference_row).reference_set_id # reference_set_id
    THEN children
    ELSE ChildrenFrom(references, reference_set_id, reference_row + 1,
                      children \cup {Row(references, reference_row).owned_id})

\* The reference rows the loop of GetChildren visits for reference_set_id:
\* from the row of that index on, as long as the rows carry that set id.
VisitedRows(references, reference_set_id) ==
    {r \in reference_set_id..(Len(references) - 1) :
        \A q \in reference_set_id..r :
            Row(references, q).reference_set_id = reference_set_id}

\* PERFETTO_CHECK(owner_id()[reference_row] == id) fails on a visited row.
OwnerCheckFails(objects, references, id) ==
    LET reference_set_id == Row(objects, id).reference_set_id
    IN  /\ reference_set_id # Null
        /\ \E r \in VisitedRows(references, reference_set_id) :
               Row(references, r).owner_id # id

GetChildren(objects, references, id) ==
    LET reference_set_id == Row(objects, id).reference_set_id
    IN  IF reference_set_id = Null THEN {}
        ELSE ChildrenFrom(references, reference_set_id, reference_set_id, {})

\* The elements of a std::set in iteration order.
RECURSIVE InOrder(_)
InOrder(S) ==
    IF S = {} THEN <<>>
    ELSE LET m == CHOOSE x \in S : \A y \in S : x <= y
         IN  <<m>> \o InOrder(S \ {m})

PushChildrenTwoFurther(objects, children, distance, queue) ==
    queue \o [i \in 1..Len(children) |-> <<distance + 2, children[i]>>]

\* The children MarkRoot pushes for a node it has just set to distance.
RECURSIVE PushChildren(_, _, _, _)
PushChildren(objects, children, distance, queue) ==
    IF children = <<>> THEN queue
    ELSE LET child_distance == Row(objects, Head(children)).root_distance
         IN  PushChildren(objects, Tail(children), distance,
                 IF child_distance = -1 \/ child_distance > distance + 1
                 THEN Append(queue, <<distance + 1, Head(children)>>)
                 ELSE queue)

PopFrontSkipped(reachable_nodes) == reachable_nodes

\* reachable_nodes.pop_front()
PopFront(reachable_nodes) == Tail(reachable_nodes)

\* One iteration of the while loop of MarkRoot over the deque
\* reachable_nodes, which is not empty.
MarkRootIter(objects, references, reachable_nodes) ==
    LET distance == Head(reachable_nodes)[1]
        cur_node == Head(reachable_nodes)[2]
        cur_distance == Row(objects, cur_node).root_distance
    IN  IF cur_distance = -1 \/ cur_distance > distance THEN
            LET marked == SetCell(IF cur_distance = -1
                                  THEN SetCell(objects, cur_node, "reachable", 1)
                                  ELSE objects,
                                  cur_node, "root_distance", distance)
            IN  [objects |-> marked,
                 reachable_nodes |->
                     PushChildren(marked,
                                  InOrder(GetChildren(marked, references, cur_node)),
                                  distance, PopFront(reachable_nodes))]
        ELSE [objects |-> objects, reachable_nodes |-> PopFront(reachable_nodes)]

\* The while loop of MarkRoot.
RECURSIVE MarkRootLoop(_, _, _)
MarkRootLoop(objects, references, reachable_nodes) ==
    IF reachable_nodes = <<>> THEN objects
    ELSE LET next == MarkRootIter(objects, references, reachable_nodes)
         IN  MarkRootLoop(next.objects, references, next.reachable_nodes)

MarkRoot(objects, references, id, type) ==
    MarkRootLoop(SetCell(objects, id, "root_type", type), references,
                 <<<<0, id>>>>)

-----------------------------------------------------------------------------
(* Superclasses *)

\* "java.lang.Class.superClass"
kSuperClassField ==
    <<"j", "a", "v", "a", ".", "l", "a", "n", "g", ".", "C", "l", "a", "s", "s",
      ".", "s", "u", "p", "e", "r", "C", "l", "a", "s", "s">>

\* ClassDescriptor {name, location}
GetClassDescriptor(objects, classes, obj_id) ==
    LET type_id == Row(objects, obj_id).type_id
    IN  <<Row(classes, type_id).name, Row(classes, type_id).location>>

GetReferredObj(references, ref_set_id, field_name) ==
    LET hits == {r \in 0..(Len(references) - 1) :
                    /\ Row(references, r).reference_set_id = ref_set_id
                    /\ Row(references, r).field_name = field_name}
    IN  IF hits = {} THEN Null
        ELSE Row(references, CHOOSE r \in hits : \A q \in hits : r <= q).owned_id

\* The loop of BuildSuperclassMap, at object row obj_id.
RECURSIVE SuperclassMapFrom(_, _, _, _, _, _, _)
SuperclassMapFrom(upid, ts, objects, references, classes, obj_id, superclass_map) ==
    IF obj_id >= Len(objects) THEN superclass_map
    ELSE
        LET obj == Row(objects, obj_id)
            class_descriptor == GetClassDescriptor(objects, classes, obj_id)
            normalized == GetNormalizedType(class_descriptor[1])
            super_obj_id == GetReferredObj(references, obj.reference_set_id,
                                           kSuperClassField)
            super_class_descriptor ==
                GetClassDescriptor(objects, classes, super_obj_id)
            skip == \/ obj.upid # upid
                    \/ obj.graph_sample_ts # ts
                    \/ ~normalized.is_static_class
                    \/ normalized.number_of_arrays > 0
                    \/ obj.reference_set_id = Null
                    \/ super_obj_id = Null
        IN  SuperclassMapFrom(upid, ts, objects, references, classes, obj_id + 1,
                IF skip THEN superclass_map
                ELSE MapPut(superclass_map,
                            <<normalized.name, class_descriptor[2]>>,
                            <<NormalizeTypeName(super_class_descriptor[1]),
                              super_class_descriptor[2]>>))

BuildSuperclassMap(upid, ts, objects, references, classes) ==
    SuperclassMapFrom(upid, ts, objects, references, classes, 0, EmptyMap)

\* class_to_id of PopulateSuperClasses: the last row of each (name, location)
ClassToId(classes) ==
    [d \in {<<Row(classes, i).name, Row(classes, i).location>> :
                i \in 0..(Len(classes) - 1)} |->
        CHOOSE i \in 0..(Len(classes) - 1) :
            /\ <<Row(classes, i).name, Row(classes, i).location>> = d
            /\ \A j \in 0..(Len(classes) - 1) :
                  <<Row(classes, j).name, Row(classes, j).location>> = d => j <= i]

\* The superclass_id PopulateSuperClasses leaves in row idx.
SuperclassOf(classes, superclass_map, class_to_id, idx) ==
    LET normalized == GetNormalizedType(Row(classes, idx).name)
        key == <<normalized.name, Row(classes, idx).location>>
    IN  IF normalized.is_static_class \/ normalized.number_of_arrays > 0
        THEN Row(classes, idx).superclass_id
        ELSE IF key \notin DOMAIN superclass_map
        THEN Row(classes, idx).superclass_id
        ELSE IF superclass_map[key] \notin DOMAIN class_to_id
        THEN Row(classes, idx).superclass_id
        ELSE class_to_id[superclass_map[key]]

PopulateSuperClasses(seq, objects, references, classes) ==
    LET superclass_map == BuildSuperclassMap(seq.current_upid, seq.current_ts,
                                             objects, references, classes)
        class_to_id == ClassToId(classes)
    IN  [i \in 1..Len(classes) |->
            [classes[i] EXCEPT
               !.superclass_id = SuperclassOf(classes, superclass_map,
                                              class_to_id, i - 1)]]

-----------------------------------------------------------------------------
(* Flamegraph *)

\* Sizes are counted in units of 2^SizeUnitBits bytes, so that a sum that
\* leaves the range of int32_t can be written down: an int32_t holds the
\* sizes -2^(kInt32Bits - SizeUnitBits - 1) .. 2^(kInt32Bits - SizeUnitBits - 1) - 1.
kInt32Bits == 32
SizeUnitBits == 20

RECURSIVE Pow2(_)
Pow2(n) == IF n = 0 THEN 1 ELSE 2 * Pow2(n - 1)

\* The value an int32_t holds after a size x is stored into it.
SizeToInt32(x) ==
    LET m == Pow2(kInt32Bits - SizeUnitBits)
    IN  ((x + m \div 2) % m) - m \div 2

\* PathFromRoot: nodes[0] is the artificial root (kRoot).  contributed is
\* history: the tree node each object added its size to.
kRoot == 0

NewNode(type_id, depth, parent_id) ==
    [type_id |-> type_id, depth |-> depth, parent_id |-> parent_id,
     size |-> 0, count |-> 0, children |-> EmptyMap]

EmptyPath ==
    [nodes |-> <<NewNode(0, 0, 0)>>, visited |-> {}, contributed |-> EmptyMap,
     check_failed |-> FALSE]

StackElem(node, parent_id, i, depth, children) ==
    [node |-> node, parent_id |-> parent_id, i |-> i, depth |-> depth,
     children |-> children]

Pop(stack) == SubSeq(stack, 1, Len(stack) - 1)

\* The stack FindPathFromRoot starts with.
FirstStackElem(id) == <<StackElem(id, kRoot, 0, 0, <<>>)>>

\* No call of FinalizeProfile or BuildFlamegraph is running.
NoWalk ==
    [pc |-> "idle", seq_id |-> Null, pairs |-> <<>>, reachable_nodes |-> <<>>,
     roots |-> <<>>, stack |-> <<>>, path |-> EmptyPath]

VisitedNever(path, child) == FALSE

\* path->visited.count(child)
Visited(path, child) == child \in path.visited

\* One iteration of the while loop of FindPathFromRoot over the stack, which
\* is not empty.  A failed PERFETTO_CHECK leaves the stack as it is.
FindPathIter(objects, references, stack, path) ==
    LET top == stack[Len(stack)]
        n == top.node
        parent_id == top.parent_id
        depth == top.depth
        type_id == Row(objects, n).type_id
        parent == Row(path.nodes, parent_id)
        found == type_id \in DOMAIN parent.children
        path_id == IF found THEN parent.children[type_id] ELSE Len(path.nodes)
        nodes1 == IF found THEN path.nodes
                  ELSE Append(SetCell(path.nodes, parent_id, "children",
                                      MapPut(parent.children, type_id, path_id)),
                              NewNode(type_id, depth, parent_id))
        first == top.i = 0
        nodes2 == IF first
                  THEN SetCell(SetCell(nodes1, path_id, "size",
                                   Row(nodes1, path_id).size
                                   + Row(objects, n).self_size),
                               path_id, "count", Row(nodes1, path_id).count + 1)
                  ELSE nodes1
        contributed == IF first THEN MapPut(path.contributed, n, path_id)
                       ELSE path.contributed
        children == IF first THEN InOrder(GetChildren(objects, references, n))
                    ELSE top.children
        child == children[top.i + 1]
        i == top.i + 1
        stack1 == IF i = Len(children) THEN Pop(stack)
                  ELSE [stack EXCEPT ![Len(stack)] =
                           StackElem(n, parent_id, i, depth, children)]
        child_distance == Row(objects, child).root_distance
        n_distance == Row(objects, n).root_distance
        visited == Visited(path, child)
        path1 == [path EXCEPT !.nodes = nodes2, !.contributed = contributed]
    IN  IF children = <<>> THEN
            [stack |-> Pop(stack), path |-> path1]
        ELSE IF n_distance < 0 \/ child_distance < 0 THEN
            [stack |-> stack, path |-> [path1 EXCEPT !.check_failed = TRUE]]
        ELSE IF child_distance = n_distance + 1 /\ ~visited THEN
            [stack |-> Append(stack1, StackElem(child, path_id, 0, depth + 1, <<>>)),
             path |-> [path1 EXCEPT !.visited = @ \cup {child}]]
        ELSE
            [stack |-> stack1, path |-> path1]

\* The while loop of FindPathFromRoot.
RECURSIVE FindPathLoop(_, _, _, _)
FindPathLoop(objects, references, stack, path) ==
    IF stack = <<>> \/ path.check_failed THEN path
    ELSE LET next == FindPathIter(objects, references, stack, path)
         IN  FindPathLoop(objects, references, next.stack, next.path)

FindPathFromRoot(objects, references, id, path) ==
    FindPathLoop(objects, references, FirstStackElem(id), path)

\* The loop of BuildFlamegraph over the roots.
RECURSIVE FindPaths(_, _, _, _)
FindPaths(objects, references, roots, path) ==
    IF roots = <<>> \/ path.check_failed THEN path
    ELSE FindPaths(objects, references, Tail(roots),
                   FindPathFromRoot(objects, references, Head(roots), path))

\* The loop that folds sizes and counts into the parents, at node i.
\* C: [size, count], the two vectors node_to_cumulative_size/count, which
\* start zeroed; they are indexed like nodes.
RECURSIVE Cumulate(_, _, _)
Cumulate(nodes, i, C) ==
    IF i <= 0 THEN C
    ELSE
        LET node == Row(nodes, i)
            size_i == SizeToInt32(Row(C.size, i) + node.size)
            count_i == Row(C.count, i) + node.count
            size1 == [C.size EXCEPT ![i + 1] = size_i]
            count1 == [C.count EXCEPT ![i + 1] = count_i]
        IN  Cumulate(nodes, i - 1,
                [size |-> [size1 EXCEPT ![node.parent_id + 1] =
                              SizeToInt32(@ + size_i)],
                 count |-> [count1 EXCEPT ![node.parent_id + 1] = @ + count_i]])

\* What BuildFlamegraph returns: is_null for nullptr, else the rows of the
\* table, the id of a row being its row number.  check_failed: a
\* PERFETTO_CHECK of FindPathFromRoot ended the process.  contributed is
\* history: the row each object added its size to.
NullTable ==
    [is_null |-> TRUE, rows |-> <<>>, contributed |-> EmptyMap,
     check_failed |-> FALSE]

\* The table BuildFlamegraph makes of the paths found.
FlamegraphTable(init_path, current_ts, current_upid) ==
    LET nodes == init_path.nodes
        zero == [k \in 1..Len(nodes) |-> 0]
        C == Cumulate(nodes, Len(nodes) - 1, [size |-> zero, count |-> zero])
    IN  [is_null |-> FALSE,
         check_failed |-> init_path.check_failed,
         contributed |-> [o \in DOMAIN init_path.contributed |->
                             init_path.contributed[o] - 1],
         rows |->
           [i \in 1..(Len(nodes) - 1) |->
              LET node == Row(nodes, i)
              IN  [ts |-> current_ts,
                   upid |-> current_upid,
                   depth |-> node.depth,
                   name |-> Row(heap_graph_class_table, node.type_id).name,
                   count |-> node.count,
                   cumulative_count |-> Row(C.count, i),
                   size |-> node.size,
                   cumulative_size |-> Row(C.size, i),
                   parent_id |-> IF node.parent_id # 0
                                 THEN node.parent_id - 1
                                 ELSE Null]]]

BuildFlamegraph(current_ts, current_upid) ==
    IF <<current_upid, current_ts>> \notin DOMAIN roots_ THEN NullTable
    ELSE FlamegraphTable(FindPaths(heap_graph_object_table,
                                   heap_graph_reference_table,
                                   InOrder(roots_[<<current_upid, current_ts>>]),
                                   EmptyPath),
                         current_ts, current_upid)

NoFlamegraph == NullTable

BuildFlamegraphCall(current_ts, current_upid) ==
    /\ flamegraph' = BuildFlamegraph(current_ts, current_upid)
    /\ UNCHANGED <<trackerVars, clientVars, tn, walk>>

-----------------------------------------------------------------------------
(* The tracker's entry points.  The deobfuscation indexes class_to_rows_    *)
(* and field_to_rows_ are read only by the deobfuscation calls and are not  *)
(* part of the model.                                                        *)

\* History: the calls made so far, by kind, the sequence of the last call,
\* the (seq_id, upid, ts) of the last AddObject or AddRoot frame, and for
\* each <<seq_id, intern_id>> the field name and field type name that the
\* last AddInternedFieldName call gave it.
ZeroCalls ==
    [objects |-> 0, roots |-> 0, interned |-> 0, finalized |-> 0, packets |-> 0,
     seq |-> 0, frame |-> <<0, 0, 0>>, names |-> EmptyMap]

Counted(kind, max, seq_id) ==
    /\ calls[kind] < max
    /\ calls' = [calls EXCEPT ![kind] = @ + 1, !.seq = seq_id]

CountedFrame(kind, max, seq_id, upid, ts) ==
    /\ calls[kind] < max
    /\ calls' = [calls EXCEPT ![kind] = @ + 1, !.seq = seq_id,
                              !.frame = <<seq_id, upid, ts>>]

AddObject(seq_id, upid, ts, obj) ==
    LET set == SetPidAndTimestamp(GetOrCreateSequence(seq_id), upid, ts)
        owner == GetOrInsertObject(Tables(set.seq), obj.object_id)
        type == GetOrInsertType(owner.T, obj.type_id)
        sized == [type.T EXCEPT
                    !.objects = SetCell(SetCell(@, owner.id, "self_size", obj.self_size),
                                        owner.id, "type_id", type.id)]
        reference_set_id == Len(sized.references)
        T == AddReferences(sized, obj.references, 1, owner.id, reference_set_id)
        any_references == Len(T.references) > reference_set_id
    IN  /\ CountedFrame("objects", MaxObjectFrames, seq_id, upid, ts)
        /\ flamegraph' = NoFlamegraph
        /\ IF ~set.ok THEN
               /\ stats' = IncrementStats(stats, "heap_graph_non_finalized_graph")
               /\ sequence_state_' = MapPut(sequence_state_, seq_id, set.seq)
               /\ UNCHANGED <<heap_graph_object_table, heap_graph_reference_table,
                              heap_graph_class_table, firstFrame>>
           ELSE
               /\ heap_graph_object_table' =
                      IF any_references
                      THEN SetCell(T.objects, owner.id, "reference_set_id",
                                   reference_set_id)
                      ELSE T.objects
               /\ heap_graph_reference_table' = T.references
               /\ heap_graph_class_table' = T.classes
               /\ sequence_state_' = MapPut(sequence_state_, seq_id, T.seq)
               /\ firstFrame' = FirstAccepted(seq_id, upid, ts)
               /\ UNCHANGED stats
        /\ UNCHANGED <<roots_, clientVars, tn, walk>>

AddRoot(seq_id, upid, ts, root) ==
    LET set == SetPidAndTimestamp(GetOrCreateSequence(seq_id), upid, ts)
    IN  /\ CountedFrame("roots", MaxRootFrames, seq_id, upid, ts)
        /\ flamegraph' = NoFlamegraph
        /\ IF ~set.ok THEN
               /\ stats' = IncrementStats(stats, "heap_graph_non_finalized_graph")
               /\ sequence_state_' = MapPut(sequence_state_, seq_id, set.seq)
               /\ UNCHANGED firstFrame
           ELSE
               /\ sequence_state_' =
                      MapPut(sequence_state_, seq_id,
                             [set.seq EXCEPT !.current_roots = Append(@, root)])
               /\ firstFrame' = FirstAccepted(seq_id, upid, ts)
               /\ UNCHANGED stats
        /\ UNCHANGED <<heap_graph_object_table, heap_graph_reference_table,
                       heap_graph_class_table, roots_, clientVars, tn, walk>>

AddInternedLocationName(seq_id, intern_id, strid) ==
    LET sequence_state == GetOrCreateSequence(seq_id)
    IN  /\ Counted("interned", MaxInternFrames, seq_id)
        /\ flamegraph' = NoFlamegraph
        /\ sequence_state_' =
               MapPut(sequence_state_, seq_id,
                      [sequence_state EXCEPT
                         !.interned_location_names =
                             IF intern_id \in DOMAIN @ THEN @
                             ELSE MapPut(@, intern_id, strid)])
        /\ UNCHANGED <<heap_graph_object_table, heap_graph_reference_table,
                       heap_graph_class_table, roots_, stats, firstFrame,
                       clientVars, tn, walk>>

AddInternedType(seq_id, intern_id, strid, location_id) ==
    LET sequence_state == GetOrCreateSequence(seq_id)
    IN  /\ Counted("interned", MaxInternFrames, seq_id)
        /\ flamegraph' = NoFlamegraph
        /\ sequence_state_' =
               MapPut(sequence_state_, seq_id,
                      [sequence_state EXCEPT
                         !.interned_types =
                             MapPut(@, intern_id,
                                    [name |-> strid, location_id |-> location_id])])
        /\ UNCHANGED <<heap_graph_object_table, heap_graph_reference_table,
                       heap_graph_class_table, roots_, stats, firstFrame,
                       clientVars, tn, walk>>

\* str.find(' '): the position of the first space, Null for npos
Find(str, c) ==
    IF \E i \in 1..Len(str) : str[i] = c
    THEN (CHOOSE i \in 1..Len(str) : str[i] = c /\ \A j \in 1..(i - 1) : str[j] # c) - 1
    ELSE Null

\* The loop of AddInternedFieldName over the reference rows of intern_id.
RECURSIVE NameReferences(_, _, _, _)
NameReferences(references, ids, field_name, type_name) ==
    IF ids = <<>> THEN references
    ELSE NameReferences(
             SetCell(SetCell(references, Head(ids), "field_name", field_name),
                     Head(ids), "field_type_name", type_name),
             Tail(ids), field_name, type_name)

AddInternedFieldName(seq_id, intern_id, str) ==
    LET sequence_state == GetOrCreateSequence(seq_id)
        space == Find(str, " ")
        type == IF space # Null THEN Substr(str, 0, space) ELSE <<>>
        name == IF space # Null THEN Substr(str, space + 1, Len(str)) ELSE str
        known == sequence_state.references_for_field_name_id
    IN  /\ calls.interned < MaxInternFrames
        /\ calls' = [calls EXCEPT
                        !.interned = @ + 1,
                        !.seq = seq_id,
                        !.names = MapPut(@, <<seq_id, intern_id>>,
                                         [field_name |-> name,
                                          field_type_name |-> type])]
        /\ flamegraph' = NoFlamegraph
        /\ sequence_state_' = MapPut(sequence_state_, seq_id, sequence_state)
        /\ heap_graph_reference_table' =
               IF intern_id \in DOMAIN known
               THEN NameReferences(heap_graph_reference_table, known[intern_id],
                                   name, type)
               ELSE heap_graph_reference_table
        /\ UNCHANGED <<heap_graph_object_table, heap_graph_class_table, roots_,
                       stats, firstFrame, clientVars, tn, walk>>

\* The loop of FinalizeProfile over interned_types, at the ids still to do.
\* S: [T, stats].
RECURSIVE FinalizeTypes(_, _)
FinalizeTypes(S, ids) ==
    IF ids = <<>> THEN S
    ELSE
        LET id == Head(ids)
            interned_type == S.T.seq.interned_types[id]
            names == S.T.seq.interned_location_names
            unknown == /\ interned_type.location_id # Null
                       /\ interned_type.location_id \notin DOMAIN names
            location_name == IF interned_type.location_id # Null /\ ~unknown
                             THEN names[interned_type.location_id]
                             ELSE Null
            type == GetOrInsertType(S.T, id)
            named == SetCell(type.T.classes, type.id, "name", interned_type.name)
        IN  FinalizeTypes(
                [T |-> [type.T EXCEPT
                          !.classes = IF location_name # Null
                                      THEN SetCell(named, type.id, "location",
                                                   location_name)
                                      ELSE named],
                 stats |-> IF unknown
                           THEN IncrementStats(S.stats, "heap_graph_invalid_string_id")
                           ELSE S.stats],
                Tail(ids))

\* The (root_type, object id) pairs of current_roots in loop order.
RECURSIVE RootPairs(_)
RootPairs(current_roots) ==
    IF current_roots = <<>> THEN <<>>
    ELSE [i \in 1..Len(Head(current_roots).object_ids) |->
             <<Head(current_roots).root_type, Head(current_roots).object_ids[i]>>]
         \o RootPairs(Tail(current_roots))

\* The loops of FinalizeProfile over current_roots.  R: [objects, roots].
RECURSIVE FinalizeRoots(_, _, _, _)
FinalizeRoots(R, references, seq, pairs) ==
    IF pairs = <<>> THEN R
    ELSE
        LET obj_id == Head(pairs)[2]
            key == <<seq.current_upid, seq.current_ts>>
            db_id == seq.object_id_to_db_id[obj_id]
            had == IF key \in DOMAIN R.roots THEN R.roots[key] ELSE {}
        IN  IF obj_id \notin DOMAIN seq.object_id_to_db_id THEN
                FinalizeRoots(R, references, seq, Tail(pairs))
            ELSE
                FinalizeRoots(
                    [objects |-> IF db_id \notin had
                                 THEN MarkRoot(R.objects, references, db_id,
                                               Head(pairs)[1])
                                 ELSE R.objects,
                     roots |-> MapPut(R.roots, key, had \cup {db_id})],
                    references, seq, Tail(pairs))

MapRemove(m, k) == [x \in DOMAIN m \ {k} |-> m[x]]

\* The index is a uint64_t; the frames of the model carry small indexes, far
\* from the value at which prev_index + 1 would wrap.  The missing-packet
\* statistic is kept per upid in the code and as one total here.
SetPacketIndex(seq_id, index) ==
    LET sequence_state == GetOrCreateSequence(seq_id)
        dropped_packet ==
            \/ sequence_state.prev_index = Null /\ index # 0
            \/ sequence_state.prev_index # Null /\ sequence_state.prev_index + 1 # index
    IN  /\ Counted("packets", MaxPacketFrames, seq_id)
        /\ flamegraph' = NoFlamegraph
        /\ stats' = IF dropped_packet
                     THEN IncrementStats(stats, "heap_graph_missing_packet")
                     ELSE stats
        /\ sequence_state_' =
               MapPut(sequence_state_, seq_id,
                      [sequence_state EXCEPT !.prev_index = index])
        /\ UNCHANGED <<heap_graph_object_table, heap_graph_reference_table,
                       heap_graph_class_table, roots_, firstFrame, clientVars, tn, walk>>

FinalizeProfile(seq_id) ==
    LET sequence_state == GetOrCreateSequence(seq_id)
        S == FinalizeTypes([T |-> Tables(sequence_state), stats |-> stats],
                           InOrder(DOMAIN sequence_state.interned_types))
        R == FinalizeRoots([objects |-> S.T.objects, roots |-> roots_],
                           S.T.references, S.T.seq,
                           RootPairs(S.T.seq.current_roots))
    IN  /\ calls.finalized < MaxFinalizeCalls
        /\ calls' = [calls EXCEPT
                        !.finalized = @ + 1,
                        !.seq = seq_id,
                        !.names = [k \in {x \in DOMAIN @ : x[1] # seq_id} |-> @[k]]]
        /\ flamegraph' = NoFlamegraph
        /\ heap_graph_object_table' = R.objects
        /\ heap_graph_reference_table' = S.T.references
        /\ heap_graph_class_table' =
               PopulateSuperClasses(S.T.seq, R.objects, S.T.references, S.T.classes)
        /\ roots_' = R.roots
        /\ stats' = S.stats
        /\ sequence_state_' = MapRemove(sequence_state_, seq_id)
        /\ firstFrame' = MapRemove(firstFrame, seq_id)
        /\ UNCHANGED <<clientVars, tn, walk>>

-----------------------------------------------------------------------------
(* FinalizeProfile and BuildFlamegraph taken one loop iteration at a time:  *)
(* walk holds the locals of the running call.  pairs: the roots            *)
(* FinalizeProfile has not marked yet; reachable_nodes: the deque of        *)
(* MarkRoot; roots: the roots BuildFlamegraph has not walked yet; stack and *)
(* path: the work stack and the result of FindPathFromRoot.                 *)

\* FinalizeProfile up to its loop over the roots.
FinalizeProfileBegin(seq_id) ==
    LET sequence_state == GetOrCreateSequence(seq_id)
        S == FinalizeTypes([T |-> Tables(sequence_state), stats |-> stats],
                           InOrder(DOMAIN sequence_state.interned_types))
    IN  /\ walk.pc = "idle"
        /\ calls.finalized < MaxFinalizeCalls
        /\ walk' = [walk EXCEPT !.pc = "mark", !.seq_id = seq_id,
                                !.pairs = RootPairs(S.T.seq.current_roots)]
        /\ flamegraph' = NoFlamegraph
        /\ heap_graph_object_table' = S.T.objects
        /\ heap_graph_reference_table' = S.T.references
        /\ heap_graph_class_table' = S.T.classes
        /\ stats' = S.stats
        /\ sequence_state_' = MapPut(sequence_state_, seq_id, S.T.seq)
        /\ UNCHANGED <<roots_, firstFrame, calls, clientVars, tn>>

\* The body of the loop over the roots, up to the while loop of MarkRoot.
MarkRootCall ==
    LET seq == sequence_state_[walk.seq_id]
        obj_id == Head(walk.pairs)[2]
        key == <<seq.current_upid, seq.current_ts>>
        db_id == seq.object_id_to_db_id[obj_id]
        had == IF key \in DOMAIN roots_ THEN roots_[key] ELSE {}
        known == obj_id \in DOMAIN seq.object_id_to_db_id
    IN  /\ walk.pc = "mark"
        /\ walk.reachable_nodes = <<>>
        /\ walk.pairs # <<>>
        /\ roots_' = IF known THEN MapPut(roots_, key, had \cup {db_id}) ELSE roots_
        /\ heap_graph_object_table' =
               IF known /\ db_id \notin had
               THEN SetCell(heap_graph_object_table, db_id, "root_type",
                            Head(walk.pairs)[1])
               ELSE heap_graph_object_table
        /\ walk' = [walk EXCEPT
                       !.pairs = Tail(@),
                       !.reachable_nodes = IF known /\ db_id \notin had
                                           THEN <<<<0, db_id>>>> ELSE <<>>]
        /\ UNCHANGED <<heap_graph_reference_table, heap_graph_class_table,
                       sequence_state_, stats, firstFrame, calls, flamegraph,
                       clientVars, tn>>

\* One iteration of the while loop of MarkRoot.
MarkRootStep ==
    LET next == MarkRootIter(heap_graph_object_table, heap_graph_reference_table,
                             walk.reachable_nodes)
    IN  /\ walk.pc = "mark"
        /\ walk.reachable_nodes # <<>>
        /\ heap_graph_object_table' = next.objects
        /\ walk' = [walk EXCEPT !.reachable_nodes = next.reachable_nodes]
        /\ UNCHANGED <<heap_graph_reference_table, heap_graph_class_table,
                       sequence_state_, roots_, stats, firstFrame, calls,
                       flamegraph, clientVars, tn>>

\* FinalizeProfile after its loop over the roots.
FinalizeProfileEnd ==
    /\ walk.pc = "mark"
    /\ walk.reachable_nodes = <<>>
    /\ walk.pairs = <<>>
    /\ calls' = [calls EXCEPT
                    !.finalized = @ + 1,
                    !.seq = walk.seq_id,
                    !.names = [k \in {x \in DOMAIN @ : x[1] # walk.seq_id} |-> @[k]]]
    /\ heap_graph_class_table' =
           PopulateSuperClasses(sequence_state_[walk.seq_id],
                                heap_graph_object_table,
                                heap_graph_reference_table,
                                heap_graph_class_table)
    /\ sequence_state_' = MapRemove(sequence_state_, walk.seq_id)
    /\ firstFrame' = MapRemove(firstFrame, walk.seq_id)
    /\ walk' = [walk EXCEPT !.pc = "marked"]
    /\ UNCHANGED <<heap_graph_object_table, heap_graph_reference_table, roots_,
                   stats, flamegraph, clientVars, tn>>

\* BuildFlamegraph up to its loop over the roots.
BuildFlamegraphBegin(current_ts, current_upid) ==
    LET found == <<current_upid, current_ts>> \in DOMAIN roots_
    IN  /\ walk.pc = "marked"
        /\ walk' = IF found
                   THEN [walk EXCEPT
                            !.pc = "path",
                            !.roots = InOrder(roots_[<<current_upid, current_ts>>]),
                            !.path = EmptyPath]
                   ELSE [walk EXCEPT !.pc = "done"]
        /\ flamegraph' = NullTable
        /\ UNCHANGED <<trackerVars, clientVars, tn>>

\* The body of the loop over the roots, up to the while loop of
\* FindPathFromRoot.
FindPathFromRootCall ==
    /\ walk.pc = "path"
    /\ walk.stack = <<>>
    /\ walk.roots # <<>>
    /\ walk' = [walk EXCEPT !.roots = Tail(@),
                            !.stack = FirstStackElem(Head(walk.roots))]
    /\ UNCHANGED <<trackerVars, flamegraph, clientVars, tn>>

\* One iteration of the while loop of FindPathFromRoot; a failed
\* PERFETTO_CHECK ends the process.
FindPathStep ==
    LET next == FindPathIter(heap_graph_object_table, heap_graph_reference_table,
                             walk.stack, walk.path)
    IN  /\ walk.pc = "path"
        /\ walk.stack # <<>>
        /\ walk' = [walk EXCEPT
                       !.pc = IF next.path.check_failed THEN "aborted" ELSE @,
                       !.stack = next.stack,
                       !.path = next.path]
        /\ UNCHANGED <<trackerVars, flamegraph, clientVars, tn>>

\* BuildFlamegraph after its loop over the roots.
BuildFlamegraphEnd(current_ts, current_upid) ==
    /\ walk.pc = "path"
    /\ walk.stack = <<>>
    /\ walk.roots = <<>>
    /\ flamegraph' = FlamegraphTable(walk.path, current_ts, current_upid)
    /\ walk' = [walk EXCEPT !.pc = "done"]
    /\ UNCHANGED <<trackerVars, clientVars, tn>>

-----------------------------------------------------------------------------
(* Specifications *)

ClientInit ==
    /\ g_heaps = [i \in {} |-> ZeroHeap]
    /\ g_next_heap_id = kMinHeapId
    /\ g_client = NoClient
    /\ g_client_init = FALSE
    /\ g_client_lock = FALSE
    /\ first_init = TRUE
    /\ clients = <<>>
    /\ pc = [t \in Threads |-> "idle"]
    /\ loc = [t \in Threads |-> IdleLoc]
    /\ wire = <<>>
    /\ cbLog = [i \in {} |-> NoCalls]
    /\ shutdownDone = FALSE
    /\ hookCalls = 0
    /\ dcheckFailed = FALSE
    /\ oobAccess = FALSE

TrackerInit ==
    /\ heap_graph_object_table = <<>>
    /\ heap_graph_reference_table = <<>>
    /\ heap_graph_class_table = <<>>
    /\ sequence_state_ = EmptyMap
    /\ roots_ = EmptyMap
    /\ stats = NoStats
    /\ firstFrame = EmptyMap
    /\ calls = ZeroCalls
    /\ flamegraph = NoFlamegraph
    /\ walk = NoWalk

Init == ClientInit /\ TrackerInit /\ tn = NoTypeName

\* P: the inputs the callers and the daemon draw from.
ThreadStep(t, P) ==
    \/ RegisterHeapCall(t, P.regs, P.infos, P.info_sizes)
    \/ RegisterHeapCopy(t)
    \/ RegisterHeapReady(t)
    \/ ReportAllocationCall(t, P.hooks, P.heap_ids, P.sizes)
    \/ ReportAllocationLocked(t)
    \/ ReportAllocationUnlock(t)
    \/ ReportAllocationRecord(t)
    \/ ReportFreeCall(t, P.hooks, P.heap_ids)
    \/ ReportFreeLocked(t)
    \/ ReportFreeUnlock(t)
    \/ ReportFreeRecord(t)
    \/ ShutdownLazyLocked(t)
    \/ DisableAllHeapsIter(t)
    \/ ShutdownLazyReset(t)
    \/ ShutdownLazyUnlock(t)
    \/ InitSessionCall(t)
    \/ InitSessionLocked1(t)
    \/ InitSessionRejectUnlock(t)
    \/ InitSessionUnlock1(t)
    \/ InitSessionOldReset(t)
    \/ InitSessionFactory(t, P.configs)
    \/ InitSessionLoopIter(t)
    \/ InitSessionLoopExit(t)
    \/ InitSessionInstall(t)
    \/ InitSessionUnlock2(t)
    \/ Return(t)
    \/ ForkChild(t)

\* Host threads running the entry points concurrently, on one heap.
ConcInputs ==
    [regs |-> MaxRegisterCalls, infos |-> TableInfos, info_sizes |-> TableSizes,
     heap_ids |-> 0..MaxRegisterCalls, sizes |-> {1}, hooks |-> MaxHookCalls,
     configs |-> SeqsUpTo({"libc.malloc"}, 1)]

Next == (\E t \in Threads : ThreadStep(t, ConcInputs)) \/ DaemonDies

Spec == Init /\ [][Next]_vars

\* The entry points called one after another by a single host thread, on two
\* heaps and with the sampler at work.

SeqInputs ==
    [regs |-> MaxSeqRegisterCalls, infos |-> HeapInfos, info_sizes |-> InfoSizes,
     heap_ids |-> 0..MaxSeqRegisterCalls, sizes |-> Sizes, hooks |-> MaxHookCalls,
     configs |-> Configs]

SeqNext == ThreadStep(1, SeqInputs) \/ DaemonDies

SpecSeq == Init /\ [][SeqNext]_vars

\* Threads filling the heap table and calling on after it is full.
RegStep(t) ==
    \/ RegisterHeapCall(t, MaxTableCalls, TableInfos, TableSizes)
    \/ RegisterHeapCopy(t)
    \/ RegisterHeapReady(t)
    \/ Return(t)

RegNext == \E t \in Threads : RegStep(t)

SpecReg == Init /\ [][RegNext]_vars

\* One thread reporting small allocations on two heaps of one session, so
\* that the sampler is asked about each heap more than once.
SamplerInputs ==
    [regs |-> MaxSeqRegisterCalls, infos |-> HeapInfos, info_sizes |-> InfoSizes,
     heap_ids |-> 1..MaxSeqRegisterCalls, sizes |-> {1}, hooks |-> MaxSamplerCalls,
     configs |-> {<<"libc.malloc", "art">>}]

SamplerNext == ThreadStep(1, SamplerInputs) \/ DaemonDies

SpecSampler == Init /\ [][SamplerNext]_vars

\* One thread that fills the heap table and goes on registering when it is
\* full; it starts sessions and reports only once the table holds an entry
\* at every index.
TableBeingFilled == g_next_heap_id < HeapArraySize

TableFullInputs ==
    [regs |-> MaxTableCalls, infos |-> TableInfos, info_sizes |-> {SizeofHeapInfo},
     heap_ids |-> IF TableBeingFilled THEN {} ELSE {kMinHeapId},
     sizes |-> {1}, hooks |-> 1,
     configs |-> IF TableBeingFilled THEN {} ELSE {<<"libc.malloc">>}]

TableNext == ThreadStep(1, TableFullInputs) \/ DaemonDies

SpecTable == Init /\ [][TableNext]_vars

\* The threads of Spec on hardware that does not keep the order of the two
\* stores of register_heap.
RelaxedNext ==
    \/ \E t \in Threads : ThreadStep(t, ConcInputs)
    \/ \E t \in Threads : RegisterHeapReadyVisibleFirst(t)
    \/ \E t \in Threads : RegisterHeapCopyVisibleLast(t)
    \/ DaemonDies

SpecRelaxed == Init /\ [][RelaxedNext]_vars

-----------------------------------------------------------------------------
(* The tracker fed with the frames of heap graphs *)

\* One process dumps one graph: objects 1..MaxObjectId with up to two
\* reference fields each (0 is an unset field), roots in any order.
RefLists == {<<>>, <<1>>, <<2>>, <<3>>, <<2, 3>>, <<0, 1>>}

RootLists == {<<1>>, <<2>>, <<3>>, <<1, 2>>, <<2, 1>>, <<3, 1>>}

TypeOf(object_id) == IF object_id = 1 THEN 1 ELSE 2

SelfSizeOf(object_id) ==
    CASE object_id = 1 -> 8
      [] object_id = 2 -> 16
      [] OTHER -> 2040

References(owned, field_name_id) ==
    [i \in 1..Len(owned) |->
        [field_name_id |-> field_name_id, owned_object_id |-> owned[i]]]

GraphObjects ==
    {[object_id |-> o, type_id |-> TypeOf(o), self_size |-> SelfSizeOf(o),
      references |-> References(r, 1)] : o \in 1..MaxObjectId, r \in RefLists}

GraphRoots == {[root_type |-> 1, object_ids |-> ids] : ids \in RootLists}

GraphNext ==
    \/ \E obj \in GraphObjects : AddObject(1, 1, 1, obj)
    \/ \E root \in GraphRoots : AddRoot(1, 1, 1, root)
    \/ calls.finalized = 0 /\ FinalizeProfile(1)
    \/ BuildFlamegraphCall(1, 1)

SpecGraph == Init /\ [][GraphNext]_vars

\* The same graphs with the two walks taken one loop iteration at a time.
\* The frames arrive before the profile is finalized; the thread that runs
\* a loop keeps running it, which is the fairness of SpecWalk.
WalkRefLists == {<<1>>, <<3>>, <<2, 3>>, <<0, 1>>}

WalkObjects ==
    {[object_id |-> o, type_id |-> TypeOf(o), self_size |-> SelfSizeOf(o),
      references |-> References(r, 1)] : o \in 1..MaxObjectId, r \in WalkRefLists}

WalkAddObject(obj) == walk.pc = "idle" /\ AddObject(1, 1, 1, obj)

WalkAddRoot(root) == walk.pc = "idle" /\ AddRoot(1, 1, 1, root)

WalkNext ==
    \/ \E obj \in WalkObjects : WalkAddObject(obj)
    \/ \E root \in GraphRoots : WalkAddRoot(root)
    \/ FinalizeProfileBegin(1)
    \/ MarkRootCall
    \/ MarkRootStep
    \/ FinalizeProfileEnd
    \/ BuildFlamegraphBegin(1, 1)
    \/ FindPathFromRootCall
    \/ FindPathStep
    \/ BuildFlamegraphEnd(1, 1)

SpecWalk ==
    Init /\ [][WalkNext]_vars /\ WF_vars(MarkRootStep) /\ WF_vars(FindPathStep)

\* Frames of several processes and dump times arriving on one sequence
FramePids == {0, 1, 2}
FrameTimestamps == {0, 1}

FrameObjects ==
    {[object_id |-> 1, type_id |-> 1, self_size |-> 8,
      references |-> References(r, 1)] : r \in {<<>>, <<2>>}}

FramesNext ==
    \/ \E upid \in FramePids, ts \in FrameTimestamps, obj \in FrameObjects :
          AddObject(1, upid, ts, obj)
    \/ \E upid \in FramePids, ts \in FrameTimestamps :
          AddRoot(1, upid, ts, [root_type |-> 1, object_ids |-> <<1>>])
    \/ FinalizeProfile(1)

SpecFrames == Init /\ [][FramesNext]_vars

\* A dump with class objects: types are interned by name, a class object
\* refers to the class object of its superclass through the superClass field.
StaticClass(name) == kJavaClassTemplate \o name \o <<">">>

ClassNames == {<<"A">>, <<"B">>, StaticClass(<<"A">>), StaticClass(<<"B">>)}

FieldNames ==
    {kSuperClassField,
     StaticClass(<<"A">>) \o <<" ">> \o kSuperClassField,
     <<"f">>}

ClassObjects ==
    {[object_id |-> o, type_id |-> o, self_size |-> 8,
      references |-> References(r, 1)] : o \in {1, 2}, r \in {<<>>, <<1>>, <<2>>}}

ClassesNext ==
    \/ \E intern_id \in {1, 2}, strid \in ClassNames :
          AddInternedType(1, intern_id, strid, Null)
    \/ \E str \in FieldNames : AddInternedFieldName(1, 1, str)
    \/ \E obj \in ClassObjects :
          Len(heap_graph_object_table) < 2 /\ AddObject(1, 1, 1, obj)
    \/ calls.finalized = 0 /\ FinalizeProfile(1)

SpecClasses == Init /\ [][ClassesNext]_vars

\* Two processes dumping at once: their frames arrive interleaved on two
\* sequences, and both use the same wire ids.
SeqIds == {1, 2}

InterleavedObjects ==
    {[object_id |-> o, type_id |-> o, self_size |-> 8,
      references |-> References(r, 1)] : o \in {1, 2}, r \in {<<>>, <<2>>, <<1, 2>>}}

InterleavedNext ==
    \/ \E seq_id \in SeqIds, obj \in InterleavedObjects :
          AddObject(seq_id, seq_id, 1, obj)
    \/ \E seq_id \in SeqIds : FinalizeProfile(seq_id)

SpecInterleaved == Init /\ [][InterleavedNext]_vars

\* The same, with every kind of frame that carries a sequence id, while both
\* dumps are under way.
SequenceObjects ==
    {[object_id |-> 1, type_id |-> 1, self_size |-> 8, references |-> References(<<2>>, 1)]}

PacketIndexes == {0, 1}

SequencesNext ==
    \/ \E seq_id \in SeqIds, obj \in SequenceObjects : AddObject(seq_id, seq_id, 1, obj)
    \/ \E seq_id \in SeqIds :
          AddRoot(seq_id, seq_id, 1, [root_type |-> 1, object_ids |-> <<1>>])
    \/ \E seq_id \in SeqIds : AddInternedLocationName(seq_id, 1, <<"L">>)
    \/ \E seq_id \in SeqIds : AddInternedType(seq_id, 1, <<"A">>, Null)
    \/ \E seq_id \in SeqIds : AddInternedFieldName(seq_id, 1, <<"f">>)
    \/ \E seq_id \in SeqIds, index \in PacketIndexes : SetPacketIndex(seq_id, index)

SpecSequences == Init /\ [][SequencesNext]_vars

\* Type names taken through GetNormalizedType and DenormalizeTypeName
InitTypeName ==
    /\ ClientInit
    /\ TrackerInit
    /\ \E t \in TypeNames : tn = [NoTypeName EXCEPT !.pc = "input", !.type = t]

TypeNameNext == NormalizeStep \/ DenormalizeStep

SpecTypeName == InitTypeName /\ [][TypeNameNext]_vars

-----------------------------------------------------------------------------
(* Properties *)

Done(t, op) == pc[t] = "done" /\ loc[t].op = op

\* C1: a hook call that starts after ShutdownLazy has returned, with no
\* session installed since, hands no record to any client, and
\* report_allocation returns false.
NoRecordAfterShutdown ==
    \A t \in Threads :
        loc[t].op \in {"alloc", "free"} /\ loc[t].afterSd =>
            /\ loc[t].rec = <<>>
            /\ loc[t].client = NoClient
            /\ ~loc[t].ret
            /\ pc[t] \notin {"ra_record", "rf_record", "sl_lock", "sl_loop", "sl_unlock"}

\* A report_allocation call after a ShutdownLazy that passed the enabled test
\* and found the slot empty.
HookAfterShutdownSeen ==
    \E t \in Threads :
        Done(t, "alloc") /\ loc[t].afterSd /\ loc[t].path = "no_client"

\* C2 as stated: when the write of a hook's record failed, then at the hook's
\* return the session slot is empty and no registered heap is enabled.
WriteFailureShutsDown ==
    \A t \in Threads :
        pc[t] = "done" /\ loc[t].op \in {"alloc", "free"} /\ loc[t].path = "write_failed" =>
            /\ SlotEmpty
            /\ \A j \in DOMAIN g_heaps : ~g_heaps[j].enabled

\* C2: when the write of a hook's record failed and no init_session call was
\* running at any time between the hook's entry and its return, then at the
\* hook's return the session slot is empty and no registered heap is enabled.
WriteFailureShutsDownWithoutInit ==
    \A t \in Threads :
        /\ pc[t] = "done" /\ loc[t].op \in {"alloc", "free"}
        /\ loc[t].path = "write_failed" /\ ~loc[t].overlap
        => /\ SlotEmpty
           /\ \A j \in DOMAIN g_heaps : ~g_heaps[j].enabled

\* A hook returns from ShutdownLazy, no init_session call having run
\* meanwhile, after the other thread's hook failed to write as well.
TwoFailedWritesSeen ==
    \E t \in Threads :
        /\ pc[t] = "done" /\ loc[t].path = "write_failed" /\ ~loc[t].overlap
        /\ \E u \in Threads \ {t} :
              loc[u].path = "write_failed" /\ pc[u] \in {"sl_lock", "done"}

\* The heap ids in the hands of calls that have drawn one and not yet returned.
IdsInFlight == {loc[t].heap_id : t \in {u \in Threads : pc[u] \in {"rh_copy", "rh_ready"}}}

\* C3: every non-zero id returned by register_heap lies strictly between 0
\* and 256, and the id a call returns was returned by no earlier call and is
\* held by no other call in flight.
RegisteredIdsUnique ==
    /\ [](\A t \in Threads :
            Done(t, "register") /\ loc[t].ret_id # 0 =>
                loc[t].ret_id > 0 /\ loc[t].ret_id < 256)
    /\ [][\A t \in Threads :
            pc[t] = "rh_ready" /\ pc'[t] = "done" =>
                /\ loc'[t].ret_id = loc[t].heap_id
                /\ ~GetHeap(loc[t].heap_id).ready
                /\ \A u \in Threads \ {t} :
                       pc[u] \in {"rh_copy", "rh_ready"} => loc[u].heap_id # loc[t].heap_id]_vars

\* Two calls have returned ids, one of them the last slot of the table.
LastSlotRegistered ==
    \E t \in Threads :
        /\ Done(t, "register") /\ loc[t].ret_id = 255
        /\ GetHeap(254).ready

\* C4: register_heap returns 0 exactly when n exceeds the struct size or
\* all of the slots 1..255 are taken, and a positive id otherwise; a call
\* rejected for its n leaves the heap table and the id counter as they were.
RegisterReturnsZeroOnlyWhenRejected ==
    /\ [](\A t \in Threads :
            Done(t, "register") =>
                IF loc[t].size > 72
                THEN loc[t].ret_id = 0
                ELSE IF loc[t].ret_id = 0
                     THEN \A i \in 1..255 : i \in DOMAIN g_heaps \/ i \in IdsInFlight
                     ELSE /\ loc[t].ret_id > 0
                          /\ GetHeap(loc[t].ret_id).ready
                          /\ GetHeap(loc[t].ret_id).heap_name = loc[t].info.heap_name)
    /\ [][\A t \in Threads :
            pc[t] = "idle" /\ pc'[t] = "done" /\ loc'[t].op = "register"
              /\ loc'[t].size > 72 =>
                UNCHANGED <<g_heaps, g_next_heap_id>>]_vars
    /\ [][\A t \in Threads :
            pc[t] = "idle" /\ pc'[t] = "rh_copy" =>
                loc'[t].heap_id = g_next_heap_id /\ loc'[t].heap_id <= 255]_vars

\* A call with a valid n finds the table full and returns 0, after a call
\* with an oversized n was rejected.
TableFullSeen ==
    \E t \in Threads :
        /\ Done(t, "register") /\ loc[t].size <= 72 /\ loc[t].ret_id = 0
        /\ \A i \in 1..255 : GetHeap(i).ready

\* C5: an init_session call that finds a connected session in the slot
\* returns true and leaves the slot, the sessions, the heap table and the
\* callbacks alone on every step it takes from there; no factory runs.
ConnectedInitChangesNothing ==
    /\ [][\A t \in Threads :
            /\ pc[t] = "is_lock1" /\ pc'[t] \in {"is_rej_unlock", "is_unlock1"}
            /\ g_client # NoClient /\ clients[g_client].connected
            => /\ pc'[t] = "is_rej_unlock"
               /\ loc'[t].ret
               /\ UNCHANGED <<g_client, clients, g_heaps, cbLog>>]_vars
    /\ [][\A t \in Threads :
            pc[t] = "is_rej_unlock" /\ pc'[t] \notin {"is_rej_unlock", "gone", "crashed"}
            => /\ pc'[t] = "done"
               /\ loc'[t] = loc[t]
               /\ UNCHANGED <<g_client, clients, g_heaps, cbLog>>]_vars
    /\ [](\A t \in Threads :
            pc[t] = "is_rej_unlock" \/ (Done(t, "init") /\ loc[t].path = "rejected") =>
                loc[t].ret /\ loc[t].client = NoClient /\ loc[t].old_client = NoClient)

\* An init_session call returned on finding a connected session.
RejectedInitSeen ==
    \E t \in Threads :
        /\ Done(t, "init") /\ loc[t].path = "rejected"
        /\ g_client # NoClient /\ \E j \in DOMAIN g_heaps : g_heaps[j].enabled

\* FirstMatch(cfg, name, i): i is the index, from 0, of the first entry of
\* cfg equal to name.
FirstMatch(cfg, name, i) ==
    /\ i + 1 \in 1..Len(cfg)
    /\ cfg[i + 1] = name
    /\ \A k \in 1..i : cfg[k] # name

\* C6: when init_session returns after creating a session, every ready heap
\* named in the handshake's heap list is enabled with service_heap_id the
\* index of the first entry naming it, and every other ready heap is disabled.
NewSessionEnablesMatchingHeaps ==
    \A t \in Threads :
        Done(t, "init") /\ loc[t].path = "created" =>
            \A j \in DOMAIN g_heaps :
                g_heaps[j].ready =>
                    IF \E k \in 1..Len(loc[t].cfg) : loc[t].cfg[k] = g_heaps[j].heap_name
                    THEN /\ g_heaps[j].enabled
                         /\ FirstMatch(loc[t].cfg, g_heaps[j].heap_name,
                                       g_heaps[j].service_heap_id)
                    ELSE ~g_heaps[j].enabled

\* A new session whose list names one ready heap twice and omits another
\* ready heap that the previous session had enabled.
MatchAndMismatchSeen ==
    \E t \in Threads :
        /\ Done(t, "init") /\ loc[t].path = "created"
        /\ Len(loc[t].cfg) = 2 /\ loc[t].cfg[1] = loc[t].cfg[2]
        /\ \E j, k \in DOMAIN g_heaps :
              /\ g_heaps[j].ready /\ g_heaps[j].heap_name = loc[t].cfg[1]
              /\ g_heaps[k].ready /\ g_heaps[k].heap_name # loc[t].cfg[1]
              /\ k \in DOMAIN cbLog /\ cbLog[k].off = 1

\* C7: for a heap registered with a callback, once the first session
\* created names it the callback has been invoked with true exactly once,
\* and once the next session created omits it the callback has been invoked
\* with false exactly once, and still with true exactly once.
CallbackOncePerFlip ==
    \A j \in DOMAIN cbLog :
        /\ cbLog[j].named = <<TRUE>> => cbLog[j].on = 1 /\ cbLog[j].off <= 1
        /\ cbLog[j].named = <<TRUE, FALSE>> => cbLog[j].on = 1 /\ cbLog[j].off = 1
        /\ cbLog[j].named = <<TRUE>> /\ GetHeap(j).enabled => cbLog[j].off = 0

\* A session naming the heap was followed by one omitting it.
NamedThenOmittedSeen ==
    \E j \in DOMAIN cbLog :
        cbLog[j].named = <<TRUE, FALSE>> /\ GetHeap(j).callback /\ ~GetHeap(j).enabled

\* C8: report_allocation goes past its first test exactly when the heap is
\* enabled, takes a session out of the guarded section exactly when the slot
\* holds one and the sampler returned a non-zero size, and returns true
\* exactly when it did so; it then has handed exactly one Malloc record, with
\* the heap's service_heap_id, the id, the sampled size and the raw size, to
\* the session it took from the slot; otherwise it has handed over nothing.
AllocationReportedIffSampled ==
    /\ [][\A t \in Threads :
            pc[t] = "idle" /\ pc'[t] \in {"done", "ra_lock"} /\ loc'[t].op = "alloc" =>
                /\ (pc'[t] = "ra_lock") = GetHeap(loc'[t].heap_id).enabled
                /\ loc'[t].client = NoClient /\ loc'[t].sampled = 0]_vars
    /\ [][\A t \in Threads :
            pc[t] = "ra_lock" /\ pc'[t] = "ra_unlock" =>
                /\ (loc'[t].client # NoClient) = (g_client # NoClient /\ loc'[t].sampled # 0)
                /\ loc'[t].client \in {NoClient, g_client}
                /\ g_client = NoClient => loc'[t].sampled = 0]_vars
    /\ [](\A t \in Threads :
            Done(t, "alloc") =>
                /\ loc[t].ret = (loc[t].client # NoClient)
                /\ loc[t].ret =>
                       loc[t].rec = <<[kind |-> "malloc", client |-> loc[t].client,
                                       heap |-> GetHeap(loc[t].heap_id).service_heap_id,
                                       id |-> loc[t].id, sampled |-> loc[t].sampled,
                                       raw |-> loc[t].size]>>
                /\ ~loc[t].ret => loc[t].rec = <<>>)

\* A small allocation that the sampler admitted was reported on the second
\* heap.
SampledAllocationSeen ==
    \E t \in Threads :
        /\ Done(t, "alloc") /\ loc[t].ret /\ loc[t].path = "recorded"
        /\ loc[t].size < SamplingInterval /\ loc[t].sampled > loc[t].size
        /\ GetHeap(loc[t].heap_id).service_heap_id = 1

\* C9: report_free goes past its first test exactly when the heap is
\* enabled, takes from the guarded section whatever the slot holds, leaving
\* the sampler alone, and has handed exactly one Free record with the heap's
\* service_heap_id and the id to that session if the slot held one;
\* otherwise it has handed over nothing and has not touched a session.
FreeReportedIffSession ==
    /\ [][\A t \in Threads :
            pc[t] = "idle" /\ pc'[t] \in {"done", "rf_lock"} /\ loc'[t].op = "free" =>
                /\ (pc'[t] = "rf_lock") = GetHeap(loc'[t].heap_id).enabled
                /\ loc'[t].client = NoClient
                /\ clients' = clients]_vars
    /\ [][\A t \in Threads :
            pc[t] = "rf_lock" /\ pc'[t] = "rf_unlock" =>
                /\ loc'[t].client = g_client
                /\ g_client = NoClient => clients' = clients
                /\ g_client # NoClient =>
                       clients' = [clients EXCEPT ![g_client].refs = @ + 1]]_vars
    /\ [](\A t \in Threads :
            Done(t, "free") =>
                IF loc[t].client # NoClient
                THEN loc[t].rec = <<[kind |-> "free", client |-> loc[t].client,
                                     heap |-> GetHeap(loc[t].heap_id).service_heap_id,
                                     id |-> loc[t].id, sampled |-> 0, raw |-> 0]>>
                ELSE loc[t].rec = <<>>)

\* A free was reported on the second heap of a session in which no
\* allocation had been reported.
UnsampledFreeSeen ==
    \E t \in Threads :
        /\ Done(t, "free") /\ loc[t].path = "recorded" /\ loc[t].n = 1
        /\ GetHeap(loc[t].heap_id).service_heap_id = 1

\* C10: for every thread, the records of its hook calls are on the wire in
\* the order in which the thread made the calls.
WireKeepsProgramOrder ==
    \A i, k \in 1..Len(wire) :
        i < k /\ wire[i].thread = wire[k].thread => wire[i].n < wire[k].n

\* One thread has two records on the wire while the other thread is inside a
\* hook or an init_session call.
TwoRecordsOfOneThreadSeen ==
    \E t \in Threads :
        /\ Len(wire) = 2 /\ wire[1].thread = t /\ wire[2].thread = t
        /\ \E u \in Threads \ {t} : pc[u] \in HookPcs \cup InitPcs

\* The step is fork() returning in the child to thread t, which was outside
\* the entry points: the other threads are gone, or were gone already and the
\* handler changed the globals.
ForkStep(t) ==
    /\ pc[t] = "idle" /\ pc'[t] = "idle"
    /\ \A u \in Threads \ {t} : pc'[u] = "gone"
    /\ \/ \E u \in Threads \ {t} : pc[u] # "gone"
       \/ <<g_client, g_heaps, g_client_lock>>' # <<g_client, g_heaps, g_client_lock>>

\* C11: when the post-fork-child handler has run, the spinlock is free, no
\* heap is enabled, the session slot is empty, and the session the slot held
\* is as it was: still connected, its reference count not lowered, not
\* destroyed.  So it is also when the spinlock was held at the fork.
ForkChildLeaksSession ==
    [][\A t \in Threads :
          ForkStep(t) =>
              /\ g_client_lock' = FALSE
              /\ \A j \in DOMAIN g_heaps' : ~g_heaps'[j].enabled
              /\ g_client' = NoClient
              /\ clients' = clients
              /\ g_client # NoClient => clients'[g_client].refs >= 1
                                         /\ clients'[g_client].dtor = "none"]_vars

\* A child forked while another thread was inside a hook with its own copy
\* of the session: the session is left with both references.
ForkedWithLockHeldSeen ==
    /\ \E u \in Threads : pc[u] = "gone"
    /\ \A u \in Threads : pc[u] \in {"gone", "idle"}
    /\ g_client = NoClient /\ ~g_client_lock
    /\ \E s \in DOMAIN clients : clients[s].refs = 2 /\ clients[s].dtor = "none"

\* The step is thread t reading or writing the session slot inside one of
\* the entry points or ShutdownLazy.
SlotAccess(t) ==
    \/ pc[t] = "ra_lock" /\ pc'[t] = "ra_unlock"
    \/ pc[t] = "rf_lock" /\ pc'[t] = "rf_unlock"
    \/ pc[t] = "sl_lock" /\ pc'[t] \in {"sl_loop", "sl_unlock"}
    \/ pc[t] = "sl_loop" /\ pc'[t] = "sl_unlock"
    \/ pc[t] = "is_lock1" /\ pc'[t] \in {"is_rej_unlock", "is_unlock1"}
    \/ pc[t] = "is_lock2" /\ pc'[t] = "is_unlock2"

\* Thread t holds the spinlock during the step: it held it before or has
\* taken it, and no other thread is inside a guarded section.
HoldsLock(t) ==
    /\ g_client_lock'
    /\ pc'[t] \in LockedPcs
    /\ \A u \in Threads \ {t} : pc[u] \notin LockedPcs

\* C20 as stated: the slot is read and written only by a thread that holds
\* the spinlock, in the entry points, in ShutdownLazy and in the
\* post-fork-child handler.
SlotOnlyUnderLock ==
    [][/\ \A t \in Threads : SlotAccess(t) => HoldsLock(t)
       /\ \A t \in Threads : ForkStep(t) => g_client_lock'
       /\ g_client' # g_client => g_client_lock']_vars

\* C20: the slot is read and written only by a thread that holds the
\* spinlock in init_session, report_allocation, report_free and ShutdownLazy;
\* the post-fork-child handler, alone in its process, writes the slot after
\* it has cleared the spinlock.
SlotUnderLockExceptAtFork ==
    [][/\ \A t \in Threads : SlotAccess(t) => HoldsLock(t)
       /\ \A t \in Threads : ForkStep(t) => ~g_client_lock' /\ g_client' = NoClient
       /\ g_client' # g_client =>
              \E t \in Threads : (SlotAccess(t) /\ HoldsLock(t)) \/ ForkStep(t)]_vars

\* The child of a fork after a hook call, its slot emptied by the handler:
\* the session is left with the reference the slot held.
ForkedSlotWrittenSeen ==
    /\ \E u \in Threads : pc[u] = "gone"
    /\ g_client = NoClient /\ ~g_client_lock /\ hookCalls > 0
    /\ \E s \in DOMAIN clients : clients[s].refs = 1 /\ clients[s].dtor = "none"

\* The threads inside a spinlock-guarded section.
InGuardedSection == {t \in Threads : pc[t] \in LockedPcs}

\* C21: at most one thread is inside a spinlock-guarded section, the
\* spinlock is set exactly while one is, and so a thread that has returned
\* from init_session, report_allocation, report_free or ShutdownLazy, by
\* whatever path, has left the spinlock free for the others.
GuardedSectionsExclusiveAndLeft ==
    /\ Cardinality(InGuardedSection) <= 1
    /\ g_client_lock <=> InGuardedSection # {}
    /\ \A t \in Threads :
           pc[t] \in {"done", "idle"} /\ g_client_lock =>
               \E u \in Threads \ {t} : pc[u] \in LockedPcs

\* A report_allocation has returned through the not-sampled exit of its
\* guarded scope and the other thread is inside a guarded section.
EarlyExitThenLockTakenSeen ==
    \E t \in Threads :
        /\ Done(t, "alloc") /\ loc[t].path = "not_sampled"
        /\ \E u \in Threads \ {t} : pc[u] \in LockedPcs

\* Session s has been destroyed.
Destroyed(s) == clients[s].dtor # "none"

\* C22: a hook about to call RecordMalloc or RecordFree holds a session that
\* has not been destroyed, and no destroyed session is held by the slot, by a
\* hook in flight or by an init_session in progress.
NoRecordOnDestroyedSession ==
    /\ \A t \in Threads :
           pc[t] \in {"ra_record", "rf_record"} =>
               /\ loc[t].client # NoClient
               /\ ~Destroyed(loc[t].client)
               /\ clients[loc[t].client].refs >= 1
    /\ \A s \in DOMAIN clients :
           Destroyed(s) =>
               /\ g_client # s
               /\ \A t \in Threads :
                      pc[t] \notin {"gone", "crashed"} =>
                          loc[t].client # s /\ loc[t].old_client # s

\* A hook is about to write its record to a session that the slot no longer
\* holds: the hook's copy is the only reference left.
HookOutlivesSlotSeen ==
    \E t \in Threads :
        /\ pc[t] \in {"ra_record", "rf_record"}
        /\ g_client # loc[t].client
        /\ clients[loc[t].client].refs = 1
        /\ ~Destroyed(loc[t].client)

\* The threads still running in this process.
Running == {t \in Threads : pc[t] \notin {"gone", "crashed"}}

\* The sessions held by the slot, by a hook in flight or by an init_session
\* in progress.
HeldSessions ==
    ({g_client} \cup {loc[t].client : t \in Running}
                \cup {loc[t].old_client : t \in Running}) \ {NoClient}

\* The sessions held by the slot or by an init_session in progress.
CurrentSessions ==
    ({g_client} \cup {loc[t].client : t \in {u \in Running : loc[u].op = "init"}}
                \cup {loc[t].old_client : t \in {u \in Running : loc[u].op = "init"}})
        \ {NoClient}

\* C23 as stated: at most one session is held by the slot, the hooks in
\* flight and the init_session in progress taken together.
AtMostOneSessionHeld == Cardinality(HeldSessions) <= 1

\* C23: at most one session is held by the slot and the init_session in
\* progress taken together; a session that hooks in flight took from the
\* slot may exist beside it until they return, and is never installed
\* again: the slot is only ever filled with the session the installing
\* init_session created, which no other thread holds.
AtMostOneCurrentSession ==
    /\ [](Cardinality(CurrentSessions) <= 1)
    /\ [][g_client' # g_client /\ g_client' # NoClient =>
             \E t \in Threads :
                 /\ pc[t] = "is_lock2" /\ loc[t].client = g_client'
                 /\ \A u \in Threads \ {t} : loc[u].client # g_client']_vars

\* A hook in flight holds the session it took from the slot while the slot
\* holds the next one.
OldSessionBesideNewSeen ==
    \E t \in Threads :
        /\ loc[t].op \in {"alloc", "free"} /\ loc[t].client # NoClient
        /\ g_client # NoClient /\ g_client # loc[t].client
        /\ ~Destroyed(loc[t].client)

\* Thread t is the holder of the spinlock: the flag is set and no other
\* thread is inside a guarded section.
LockIsHeldBy(t) ==
    g_client_lock /\ \A u \in Threads \ {t} : pc[u] \notin LockedPcs

\* C24: a thread that is about to run the session factories, or to write a
\* Malloc or Free record, does not hold the spinlock.
NoFactoryOrWriteUnderLock ==
    \A t \in Threads :
        pc[t] \in {"is_factory", "ra_record", "rf_record"} => ~LockIsHeldBy(t)

\* init_session is about to run the factories while the other thread is
\* inside the guarded section of a hook.
FactoryBesideGuardedSectionSeen ==
    \E t \in Threads :
        /\ pc[t] = "is_factory"
        /\ \E u \in Threads \ {t} : pc[u] \in {"ra_unlock", "rf_unlock"}

\* C25: init_session calls not overlapping, the slot is empty whenever an
\* init_session stands before its install, and the assertion before the
\* install has never seen a session in the slot, whatever hooks and
\* ShutdownLazy calls ran meanwhile.
SlotEmptyAtInstall ==
    /\ ~dcheckFailed
    /\ \A t \in Threads : pc[t] = "is_lock2" => SlotEmpty

\* An init_session has installed its session while the hook of the other
\* thread, begun before it, is on its way into ShutdownLazy.
InstallBesideShutdownSeen ==
    \E t \in Threads :
        /\ pc[t] = "is_unlock2" /\ g_client # NoClient
        /\ \E u \in Threads \ {t} : pc[u] = "sl_lock" /\ loc[u].overlap

\* The name and callback of a heap entry.
InfoOf(heap) == [heap_name |-> heap.heap_name, callback |-> heap.callback]

\* C26: once a heap entry's ready flag is true, the flag, the name and the
\* callback stay as they are on every later step, and a loop of init_session
\* or DisableAllHeaps that finds ready = true in the entry it stands at finds
\* there the name and callback that the registering call was given.
ReadyEntryCompleteAndFixed ==
    /\ [][\A j \in DOMAIN g_heaps :
             g_heaps[j].ready =>
                 /\ g_heaps'[j].ready
                 /\ InfoOf(g_heaps'[j]) = InfoOf(g_heaps[j])]_vars
    /\ [](\A u \in Threads :
             /\ pc[u] \in {"is_loop", "sl_loop"}
             /\ loc[u].j < g_next_heap_id /\ InArray(loc[u].j)
             /\ GetHeap(loc[u].j).ready
             => \A t \in Threads :
                    loc[t].op = "register" /\ loc[t].heap_id = loc[u].j =>
                        InfoOf(GetHeap(loc[u].j))
                            = InfoOf(CopyInfo(ZeroHeap, loc[t].info, loc[t].size)))

\* C27: the sampled size the session returns for an allocation reported on
\* heap h, 0 for not sampled, is one that a sampler which saw the sizes
\* reported on h alone could return after returning what the session
\* returned for them: allocations reported on another heap make no
\* difference to it.
SampledSizeDependsOnOwnHeapOnly ==
    \A t \in Threads :
        /\ pc[t] = "ra_unlock"
        /\ loc[t].path = "not_sampled" \/ loc[t].client # NoClient
        => loc[t].sampled \in loc[t].alone

\* C30: whatever register_heap calls were made, those that returned 0 for a
\* full table included, every index at which the loop of init_session and
\* DisableAllHeaps (reached from ShutdownLazy or from the fork handler) reads
\* g_heaps lies in 1..255.
LoopIndexesInsideTable ==
    /\ ~oobAccess
    /\ \A t \in Threads :
           /\ pc[t] \in {"is_loop", "sl_loop"}
           /\ loc[t].j < g_next_heap_id
           => loc[t].j \in kMinHeapId..(HeapArraySize - 1)

-----------------------------------------------------------------------------
(* Properties of the heap graph tracker *)

\* C18: for every type name t, DenormalizeTypeName(GetNormalizedType(t),
\* GetNormalizedType(t).name) is t again: the java.lang.Class<...> wrapper
\* and the trailing [] pairs that were stripped are put back as they were.
TypeNameRoundTrip ==
    tn.pc = "denormalized" => tn.result = tn.type

\* A static class of an array type, java.lang.Class<X[]>, went through.
StaticArrayTypeSeen ==
    /\ tn.pc = "denormalized"
    /\ tn.normalized.is_static_class
    /\ tn.normalized.number_of_arrays > 0
    /\ tn.normalized.name # <<>>

\* A FinalizeProfile has run and no sequence has frames pending.
Finalized == calls.finalized > 0 /\ DOMAIN sequence_state_ = {}

ObjectIds == 0..(Len(heap_graph_object_table) - 1)

Object(id) == Row(heap_graph_object_table, id)

AllRoots == UNION {roots_[k] : k \in DOMAIN roots_}

\* The rows of the Reference table as edges owner -> owned.
ReferenceEdges ==
    {<<heap_graph_reference_table[r].owner_id, heap_graph_reference_table[r].owned_id>> :
        r \in 1..Len(heap_graph_reference_table)}

\* The objects at exactly d edges from the roots, given those nearer.
RECURSIVE Layer(_, _, _)
Layer(d, frontier, nearer) ==
    IF d = 0 THEN frontier
    ELSE Layer(d - 1,
               {e[2] : e \in {x \in ReferenceEdges : x[1] \in frontier}}
                   \ (nearer \cup frontier),
               nearer \cup frontier)

\* Length of the shortest reference path from a root to id, -1 if none.
ShortestPath(id) ==
    IF \E d \in 0..Len(heap_graph_object_table) : id \in Layer(d, AllRoots, {})
    THEN CHOOSE d \in 0..Len(heap_graph_object_table) : id \in Layer(d, AllRoots, {})
    ELSE -1

\* C12: after FinalizeProfile every object's root_distance is the length of
\* the shortest reference path to it from a root (0 for a root), -1 exactly
\* for the objects no root reaches, and reachable is 1 exactly when
\* root_distance is not -1.
RootDistanceIsShortestPath ==
    Finalized =>
        \A id \in ObjectIds :
            /\ Object(id).root_distance = ShortestPath(id)
            /\ Object(id).reachable = 1 <=> Object(id).root_distance # -1

\* C13: every reachable object with root_distance d > 0 is the owned object
\* of a Reference row whose owner has root_distance d - 1.
ReachableHasNearerOwner ==
    \A id \in ObjectIds :
        Object(id).reachable = 1 /\ Object(id).root_distance > 0 =>
            \E e \in ReferenceEdges :
                /\ e[2] = id
                /\ Object(e[1]).root_distance = Object(id).root_distance - 1

\* A chain root -> a -> b and an object owned by a nearer and a farther owner.
ChainAndShortcutSeen ==
    /\ Finalized
    /\ \E a, b \in ObjectIds :
          /\ Object(a).root_distance = 1
          /\ Object(b).root_distance = 2
          /\ <<a, b>> \in ReferenceEdges
    /\ \E e, f \in ReferenceEdges :
          /\ e[2] = f[2]
          /\ Object(e[1]).reachable = 1 /\ Object(f[1]).reachable = 1
          /\ Object(e[1]).root_distance < Object(f[1]).root_distance

RECURSIVE SumOf(_, _)
SumOf(f, S) ==
    IF S = {} THEN 0
    ELSE LET x == CHOOSE y \in S : TRUE
         IN  f[x] + SumOf(f, S \ {x})

FlameRows == flamegraph.rows

\* The rows whose parent_id is the row with index i (id i - 1).
ChildRows(i) == {j \in 1..Len(FlameRows) : FlameRows[j].parent_id = i - 1}

\* C15: in the table BuildFlamegraph returns, every row's cumulative_size is
\* its own size plus the cumulative_size of the rows whose parent it is, and
\* likewise for cumulative_count.
CumulativeIsOwnPlusChildren ==
    ~flamegraph.is_null =>
        \A i \in 1..Len(FlameRows) :
            /\ FlameRows[i].cumulative_size =
                   FlameRows[i].size
                   + SumOf([j \in ChildRows(i) |-> FlameRows[j].cumulative_size],
                           ChildRows(i))
            /\ FlameRows[i].cumulative_count =
                   FlameRows[i].count
                   + SumOf([j \in ChildRows(i) |-> FlameRows[j].cumulative_count],
                           ChildRows(i))

\* The objects of the flamegraph's (upid, ts) that MarkRoot found reachable.
ReachableObjects ==
    {id \in ObjectIds :
        /\ Object(id).upid = 1 /\ Object(id).graph_sample_ts = 1
        /\ Object(id).reachable = 1}

\* C16: BuildFlamegraph counts every reachable object of (upid, ts) exactly
\* once: the counts of all rows add up to the number of reachable objects and
\* the sizes to the sum of their self_size.
EveryReachableObjectCountedOnce ==
    ~flamegraph.is_null =>
        /\ ~flamegraph.check_failed
        /\ DOMAIN flamegraph.contributed = ReachableObjects
        /\ SumOf([i \in 1..Len(FlameRows) |-> FlameRows[i].count],
                 1..Len(FlameRows)) = Cardinality(ReachableObjects)
        /\ SumOf([i \in 1..Len(FlameRows) |-> FlameRows[i].size],
                 1..Len(FlameRows))
           = SumOf([id \in ReachableObjects |-> Object(id).self_size],
                   ReachableObjects)

\* A table was built for a graph with two roots that own the same object, an
\* object on a cycle and an object with two owners at different distances.
SharedObjectsCountedSeen ==
    /\ ~flamegraph.is_null
    /\ \E e, f \in ReferenceEdges :
          /\ e[2] = f[2] /\ e[1] # f[1]
          /\ {e[1], f[1]} \subseteq AllRoots
          /\ e[2] \notin AllRoots
    /\ \E e, f \in ReferenceEdges :
          /\ e[1] = f[2] /\ e[2] = f[1] /\ e[1] # e[2]
          /\ Object(e[1]).reachable = 1

\* C17: the row a root object contributes to has depth 1 and no parent; the
\* row an object with root_distance d contributes to has depth d + 1 and, for
\* d > 0, a parent row of depth d.
DepthIsRootDistancePlusOne ==
    ~flamegraph.is_null =>
        \A id \in DOMAIN flamegraph.contributed :
            LET row == Row(FlameRows, flamegraph.contributed[id])
                d == Object(id).root_distance
            IN  /\ row.depth = d + 1
                /\ d = 0 => row.parent_id = Null
                /\ d > 0 => /\ row.parent_id # Null
                            /\ Row(FlameRows, row.parent_id).depth = d

\* An AddObject or AddRoot frame is handed in.
FrameStep ==
    calls'.objects + calls'.roots > calls.objects + calls.roots

\* The frame is dropped: one stat more, tables and sequence state as before.
FrameDropped ==
    /\ stats'.heap_graph_non_finalized_graph = stats.heap_graph_non_finalized_graph + 1
    /\ heap_graph_object_table' = heap_graph_object_table
    /\ heap_graph_reference_table' = heap_graph_reference_table
    /\ heap_graph_class_table' = heap_graph_class_table
    /\ sequence_state_' = sequence_state_

\* C19: between two FinalizeProfile calls a sequence accepts only frames that
\* carry the (upid, ts) of the first frame it accepted; a frame with another
\* upid or ts is dropped, whatever the values are, 0 included.
FramesOfAnotherGraphDropped ==
    [][FrameStep /\ calls'.frame[1] \in DOMAIN firstFrame
         /\ <<calls'.frame[2], calls'.frame[3]>> # firstFrame[calls'.frame[1]]
       => FrameDropped]_vars

ClassIds == 0..(Len(heap_graph_class_table) - 1)

\* The row reached from class row c by following superclass_id n times.
RECURSIVE Ancestor(_, _)
Ancestor(c, n) ==
    IF n = 0 \/ c = Null THEN c
    ELSE Ancestor(Row(heap_graph_class_table, c).superclass_id, n - 1)

\* C14: after PopulateSuperClasses, following superclass_id from a Class row
\* never returns to that row: no cycle and no self-loop.
SuperclassEdgesAcyclic ==
    \A c \in ClassIds :
        \A n \in 1..Len(heap_graph_class_table) : Ancestor(c, n) # c

\* C28: whatever AddObject frames arrived on the interleaved sequences, the
\* Reference rows that share a reference_set_id have one owner and are the
\* consecutive rows from the row whose index is that reference_set_id on,
\* and the owner check of GetChildren fails for no object.
ReferenceSetsContiguousWithOneOwner ==
    /\ \A r \in 0..(Len(heap_graph_reference_table) - 1) :
           LET row == Row(heap_graph_reference_table, r)
           IN  /\ row.reference_set_id \in 0..r
               /\ \A q \in row.reference_set_id..r :
                      /\ Row(heap_graph_reference_table, q).reference_set_id =
                             row.reference_set_id
                      /\ Row(heap_graph_reference_table, q).owner_id = row.owner_id
    /\ \A id \in 0..(Len(heap_graph_object_table) - 1) :
           ~OwnerCheckFails(heap_graph_object_table, heap_graph_reference_table, id)

\* Two sequences have each added an object with references, and the rows of
\* a set of two references lie behind the rows of the other sequence's
\* object.
InterleavedReferenceSetsSeen ==
    /\ \E a, b \in DOMAIN sequence_state_ :
           /\ a # b
           /\ \E x \in DOMAIN sequence_state_[a].object_id_to_db_id,
                 y \in DOMAIN sequence_state_[b].object_id_to_db_id :
                  LET ox == Row(heap_graph_object_table,
                                sequence_state_[a].object_id_to_db_id[x])
                      oy == Row(heap_graph_object_table,
                                sequence_state_[b].object_id_to_db_id[y])
                  IN  /\ ox.reference_set_id # Null
                      /\ oy.reference_set_id # Null
                      /\ ox.reference_set_id < oy.reference_set_id
                      /\ Cardinality(VisitedRows(heap_graph_reference_table,
                                                 oy.reference_set_id)) = 2


\* The state the tracker holds for sequence b: the default-constructed one
\* as long as no frame of b has arrived.
SequenceView(states, b) ==
    IF b \in DOMAIN states THEN states[b] ELSE EmptySequenceState

\* C29: a frame handled for sequence A (interned data, AddObject, AddRoot,
\* SetPacketIndex) leaves the state of every other sequence as it was, its
\* interning tables, object-id and type-id maps, pending roots and packet
\* index; and a wire object id or type id used on two sequences is mapped to
\* two different object rows or class rows.
SequencesIsolated ==
    /\ [][\A b \in SeqIds :
            b # calls'.seq =>
                SequenceView(sequence_state_', b) = SequenceView(sequence_state_, b)]_vars
    /\ [](\A a, b \in DOMAIN sequence_state_ :
            a # b =>
                /\ \A x \in (DOMAIN sequence_state_[a].object_id_to_db_id)
                             \cap (DOMAIN sequence_state_[b].object_id_to_db_id) :
                       sequence_state_[a].object_id_to_db_id[x] #
                           sequence_state_[b].object_id_to_db_id[x]
                /\ \A x \in (DOMAIN sequence_state_[a].type_id_to_db_id)
                             \cap (DOMAIN sequence_state_[b].type_id_to_db_id) :
                       sequence_state_[a].type_id_to_db_id[x] #
                           sequence_state_[b].type_id_to_db_id[x])

\* Both sequences hold object 1 and type 1, pending roots, interned data and
\* a packet index, and the last frame was one of sequence 2.
BothSequencesFilledSeen ==
    /\ DOMAIN sequence_state_ = SeqIds
    /\ calls.seq = 2
    /\ \A a \in SeqIds :
           /\ 1 \in DOMAIN sequence_state_[a].object_id_to_db_id
           /\ 1 \in DOMAIN sequence_state_[a].type_id_to_db_id
    /\ sequence_state_[1].current_roots # <<>>
    /\ sequence_state_[1].prev_index # Null
    /\ sequence_state_[2].prev_index # Null
    /\ sequence_state_[1].interned_types # EmptyMap


-----------------------------------------------------------------------------
(* Further properties of the client entry points *)

\* Thread t takes a step of ShutdownLazy.
ShutdownLazyStep(t) ==
    /\ pc[t] \in {"sl_lock", "sl_loop"}
    /\ pc'[t] \notin {"gone", "crashed"}
    /\ pc'[t] # pc[t] \/ loc'[t] # loc[t]

\* C31: when a hook whose record write failed on its copy of session X runs
\* ShutdownLazy while a later session Y is in the slot, no step of that
\* ShutdownLazy takes Y out of the slot or disables a heap.
StaleWriteFailureSparesNewSession ==
    [][\A t \in Threads :
          /\ ShutdownLazyStep(t)
          /\ loc[t].client # NoClient
          /\ g_client \notin {NoClient, loc[t].client}
          => /\ g_client' = g_client
             /\ \A j \in DOMAIN g_heaps : g_heaps[j].enabled => g_heaps'[j].enabled]_vars


\* C32: no heap callback, whether fired by the loop of init_session or by
\* DisableAllHeaps inside ShutdownLazy, was ever invoked by a thread that
\* held the spinlock.
CallbacksInvokedWithLockReleased ==
    \A j \in DOMAIN cbLog : ~cbLog[j].locked


\* C33: whenever the session slot is empty and no init_session call is in
\* progress, no heap is enabled; so an init_session that returned false
\* after swapping a stale session out has left no heap enabled.
NoHeapEnabledWithoutSession ==
    SlotEmpty /\ ~InitInProgress => \A j \in DOMAIN g_heaps : ~g_heaps[j].enabled


\* C34: no session was destroyed by a thread that held the spinlock: the
\* last reference to a session, dropped by ShutdownLazy clearing the slot,
\* by init_session releasing the stale session or by a hook releasing its
\* copy, is dropped with the lock released.
NoSessionDestroyedUnderLock ==
    \A s \in DOMAIN clients : clients[s].dtor # "locked"


-----------------------------------------------------------------------------
(* Further properties of the heap graph tracker *)

\* The sequence a FinalizeProfile step finalizes.
FinalizeStepOf(seq_id) ==
    /\ calls'.finalized = calls.finalized + 1
    /\ calls'.seq = seq_id

\* C35: when FinalizeProfile runs for a sequence, every Reference row the
\* sequence inserted under a field_name_id that AddInternedFieldName
\* interned on that sequence carries the interned field name and field type
\* name, whichever of AddObject and AddInternedFieldName came first.
FieldNamesResolvedInAnyOrder ==
    [][\A seq_id \in DOMAIN sequence_state_ :
          FinalizeStepOf(seq_id) =>
              \A fid \in DOMAIN sequence_state_[seq_id].references_for_field_name_id :
                  <<seq_id, fid>> \in DOMAIN calls.names =>
                      \A i \in 1..Len(sequence_state_[seq_id].references_for_field_name_id[fid]) :
                          LET row == Row(heap_graph_reference_table',
                                         sequence_state_[seq_id].references_for_field_name_id[fid][i])
                          IN  /\ row.field_name = calls.names[<<seq_id, fid>>].field_name
                              /\ row.field_type_name =
                                     calls.names[<<seq_id, fid>>].field_type_name]_vars


\* C36: after FinalizeProfile, for every row of the Reference table whose
\* owner is reachable the owned object is reachable too, at a root_distance
\* of at most the owner's plus one; also when AddObject was called more than
\* once for one object id.
ReachabilityClosedUnderReferences ==
    Finalized =>
        \A e \in ReferenceEdges :
            Object(e[1]).reachable = 1 =>
                /\ Object(e[2]).reachable = 1
                /\ Object(e[2]).root_distance <= Object(e[1]).root_distance + 1


\* C37: MarkRoot and FindPathFromRoot terminate on every finite object graph,
\* cycles, self-references and objects under several roots included: once
\* the deque of MarkRoot holds a node it becomes empty, and once the work
\* stack of FindPathFromRoot holds an element it becomes empty.
WalksTerminate ==
    /\ (walk.reachable_nodes # <<>>) ~> (walk.reachable_nodes = <<>>)
    /\ (walk.stack # <<>>) ~> (walk.stack = <<>>)

WalkedCyclicGraphSeen ==
    /\ walk.pc = "done"
    /\ ~flamegraph.is_null
    /\ \E e \in ReferenceEdges : e[1] = e[2]
    /\ \E e \in ReferenceEdges : e[1] # e[2] /\ <<e[2], e[1]>> \in ReferenceEdges
    /\ \E r1, r2 \in AllRoots :
          /\ r1 # r2
          /\ \E o \in ObjectIds : {<<r1, o>>, <<r2, o>>} \subseteq ReferenceEdges


\* Row j is row i or lies below it in the tree the parent_id column gives.
RECURSIVE UnderRow(_, _)
UnderRow(j, i) ==
    \/ j = i
    \/ /\ FlameRows[j].parent_id # Null
       /\ UnderRow(FlameRows[j].parent_id + 1, i)

SubtreeRows(i) == {j \in 1..Len(FlameRows) : UnderRow(j, i)}

\* C38: BuildFlamegraph adds the sizes and counts up without 32-bit
\* truncation: every row's cumulative_size is the exact sum of the size
\* column over the row's subtree, also when that sum is 2^31 bytes or more,
\* and its cumulative_count the exact sum of the count column.
CumulativeSizeIsExactSubtreeSum ==
    ~flamegraph.is_null =>
        \A i \in 1..Len(FlameRows) :
            /\ FlameRows[i].cumulative_size =
                   SumOf([j \in SubtreeRows(i) |-> FlameRows[j].size],
                         SubtreeRows(i))
            /\ FlameRows[i].cumulative_count =
                   SumOf([j \in SubtreeRows(i) |-> FlameRows[j].count],
                         SubtreeRows(i))

=========================================================================
